---- MODULE Spec2Model ----
(***************************************************************************)
(* A model of the Firebird dialect of src/sqlalchemy_firebird/base.py:     *)
(* the capability state fixed by FBDialect.initialize, the SQL rendering   *)
(* overrides of FBCompiler, FBDDLCompiler and FBTypeCompiler, the          *)
(* identifier policy of FBIdentifierPreparer and the catalog reflection    *)
(* methods of FBDialect.                                                   *)
(*                                                                         *)
(* Text is modelled as a sequence of one-character strings, so that        *)
(* slicing, stripping and case folding are computed, not assumed.  A       *)
(* Python value that may be None is modelled as a set: {} is None and {v}  *)
(* is the value v.                                                         *)
(***************************************************************************)
EXTENDS Integers, Sequences, FiniteSets, TLC

VARIABLES
    ischema_names,      \* the module-level table of base.py:215
    colspecs,           \* the module-level table of base.py:213
    server,             \* per dialect: what its connection's server reports
    db,                 \* which system catalog the reflection queries read
    initialized,        \* per dialect: initialize has run
    server_version_info, \* per dialect: attribute set by the inherited initialize
    version_two,        \* per dialect: self._version_two
    inst_ischema_names, \* per dialect: instance attribute ischema_names, {} when unset
    inst_colspecs,      \* per dialect: instance attribute colspecs, {} when unset
    implicit_returning, \* per dialect: instance attribute implicit_returning, {} when unset
    max_identifier_length, \* per dialect: self.max_identifier_length
    pc,                 \* per dialect: the statement of initialize it stands at
    last                \* the last call made, its arguments and its outcome

vars == << ischema_names, colspecs, server, db, initialized,
           server_version_info, version_two,
           inst_ischema_names, inst_colspecs, implicit_returning,
           max_identifier_length, pc, last >>

\* The capability state of every dialect instance.
capability == << version_two, inst_ischema_names, inst_colspecs,
                 implicit_returning, max_identifier_length >>

\* The module-level static tables.
statics == << ischema_names, colspecs >>

\* What the program reads but never writes: the servers and their catalogs.
environment == << server, db >>

None == {}
Some(v) == {v}
The(o) == CHOOSE v \in o : TRUE

-----------------------------------------------------------------------------
(* Text *)

UpperLetters ==
    << "A","B","C","D","E","F","G","H","I","J","K","L","M",
       "N","O","P","Q","R","S","T","U","V","W","X","Y","Z" >>

LowerLetters ==
    << "a","b","c","d","e","f","g","h","i","j","k","l","m",
       "n","o","p","q","r","s","t","u","v","w","x","y","z" >>

Digits == { "0","1","2","3","4","5","6","7","8","9" }

\* str.isspace for the characters the model uses
Whitespace == { " ", "\t", "\n" }

UpperSet == { UpperLetters[i] : i \in 1..26 }
LowerSet == { LowerLetters[i] : i \in 1..26 }

IsUpperChar(c) == c \in UpperSet
IsLowerChar(c) == c \in LowerSet

LowerOf == [c \in UpperSet |-> LowerLetters[CHOOSE i \in 1..26 : UpperLetters[i] = c]]
UpperOf == [c \in LowerSet |-> UpperLetters[CHOOSE i \in 1..26 : LowerLetters[i] = c]]

LowerChar(c) == IF c \in UpperSet THEN LowerOf[c] ELSE c
UpperChar(c) == IF c \in LowerSet THEN UpperOf[c] ELSE c

\* str.lower and str.upper
lower(s) == [i \in 1..Len(s) |-> LowerChar(s[i])]
upper(s) == [i \in 1..Len(s) |-> UpperChar(s[i])]

\* the slices s[:n] and s[n:]
SliceTo(s, n) == SubSeq(s, 1, IF n < Len(s) THEN n ELSE Len(s))
SliceFrom(s, n) == SubSeq(s, n + 1, Len(s))

\* str.lstrip, str.rstrip and str.strip (SQL TRIM strips blanks the same way)
RECURSIVE lstrip(_)
lstrip(s) ==
    IF s # << >> /\ s[1] \in Whitespace THEN lstrip(Tail(s)) ELSE s

RECURSIVE rstrip(_)
rstrip(s) ==
    IF s # << >> /\ s[Len(s)] \in Whitespace
    THEN rstrip(SubSeq(s, 1, Len(s) - 1))
    ELSE s

strip(s) == rstrip(lstrip(s))

\* n copies of the character c
Repeat(c, n) == [i \in 1..n |-> c]

-----------------------------------------------------------------------------
(* Identifier policy: FBIdentifierPreparer and the name normalisation that *)
(* requires_name_normalize = True switches on in the inherited dialect.    *)

RESERVED_WORDS ==
    { <<"a","d","d">>
    , <<"a","d","m","i","n">>
    , <<"a","l","l">>
    , <<"a","l","t","e","r">>
    , <<"a","n","d">>
    , <<"a","n","y">>
    , <<"a","s">>
    , <<"a","t">>
    , <<"a","v","g">>
    , <<"b","e","g","i","n">>
    , <<"b","e","t","w","e","e","n">>
    , <<"b","i","g","i","n","t">>
    , <<"b","i","n","a","r","y">>
    , <<"b","i","t","_","l","e","n","g","t","h">>
    , <<"b","l","o","b">>
    , <<"b","o","o","l","e","a","n">>
    , <<"b","o","t","h">>
    , <<"b","y">>
    , <<"c","a","s","e">>
    , <<"c","a","s","t">>
    , <<"c","h","a","r">>
    , <<"c","h","a","r","a","c","t","e","r">>
    , <<"c","h","a","r","a","c","t","e","r","_","l","e","n","g","t","h">>
    , <<"c","h","a","r","_","l","e","n","g","t","h">>
    , <<"c","h","e","c","k">>
    , <<"c","l","o","s","e">>
    , <<"c","o","l","l","a","t","e">>
    , <<"c","o","l","u","m","n">>
    , <<"c","o","m","m","e","n","t">>
    , <<"c","o","m","m","i","t">>
    , <<"c","o","n","n","e","c","t">>
    , <<"c","o","n","s","t","r","a","i","n","t">>
    , <<"c","o","r","r">>
    , <<"c","o","u","n","t">>
    , <<"c","o","v","a","r","_","p","o","p">>
    , <<"c","o","v","a","r","_","s","a","m","p">>
    , <<"c","r","e","a","t","e">>
    , <<"c","r","o","s","s">>
    , <<"c","u","r","r","e","n","t">>
    , <<"c","u","r","r","e","n","t","_","c","o","n","n","e","c","t","i","o","n">>
    , <<"c","u","r","r","e","n","t","_","d","a","t","e">>
    , <<"c","u","r","r","e","n","t","_","r","o","l","e">>
    , <<"c","u","r","r","e","n","t","_","t","i","m","e">>
    , <<"c","u","r","r","e","n","t","_","t","i","m","e","s","t","a","m","p">>
    , <<"c","u","r","r","e","n","t","_","t","r","a","n","s","a","c","t","i","o","n">>
    , <<"c","u","r","r","e","n","t","_","u","s","e","r">>
    , <<"c","u","r","s","o","r">>
    , <<"d","a","t","e">>
    , <<"d","a","y">>
    , <<"d","e","c">>
    , <<"d","e","c","f","l","o","a","t">>
    , <<"d","e","c","i","m","a","l">>
    , <<"d","e","c","l","a","r","e">>
    , <<"d","e","f","a","u","l","t">>
    , <<"d","e","l","e","t","e">>
    , <<"d","e","l","e","t","i","n","g">>
    , <<"d","e","t","e","r","m","i","n","i","s","t","i","c">>
    , <<"d","i","s","c","o","n","n","e","c","t">>
    , <<"d","i","s","t","i","n","c","t">>
    , <<"d","o","u","b","l","e">>
    , <<"d","r","o","p">>
    , <<"e","l","s","e">>
    , <<"e","n","d">>
    , <<"e","s","c","a","p","e">>
    , <<"e","x","e","c","u","t","e">>
    , <<"e","x","i","s","t","s">>
    , <<"e","x","t","e","r","n","a","l">>
    , <<"e","x","t","r","a","c","t">>
    , <<"f","a","l","s","e">>
    , <<"f","e","t","c","h">>
    , <<"f","i","l","t","e","r">>
    , <<"f","l","o","a","t">>
    , <<"f","o","r">>
    , <<"f","o","r","e","i","g","n">>
    , <<"f","r","o","m">>
    , <<"f","u","l","l">>
    , <<"f","u","n","c","t","i","o","n">>
    , <<"g","d","s","c","o","d","e">>
    , <<"g","l","o","b","a","l">>
    , <<"g","r","a","n","t">>
    , <<"g","r","o","u","p">>
    , <<"h","a","v","i","n","g">>
    , <<"h","o","u","r">>
    , <<"i","n">>
    , <<"i","n","d","e","x">>
    , <<"i","n","n","e","r">>
    , <<"i","n","s","e","n","s","i","t","i","v","e">>
    , <<"i","n","s","e","r","t">>
    , <<"i","n","s","e","r","t","i","n","g">>
    , <<"i","n","t">>
    , <<"i","n","t","1","2","8">>
    , <<"i","n","t","e","g","e","r">>
    , <<"i","n","t","o">>
    , <<"i","s">>
    , <<"j","o","i","n">>
    , <<"l","a","t","e","r","a","l">>
    , <<"l","e","a","d","i","n","g">>
    , <<"l","e","f","t">>
    , <<"l","i","k","e">>
    , <<"l","o","c","a","l">>
    , <<"l","o","c","a","l","t","i","m","e">>
    , <<"l","o","c","a","l","t","i","m","e","s","t","a","m","p">>
    , <<"l","o","n","g">>
    , <<"l","o","w","e","r">>
    , <<"m","a","x">>
    , <<"m","e","r","g","e">>
    , <<"m","i","n">>
    , <<"m","i","n","u","t","e">>
    , <<"m","o","n","t","h">>
    , <<"n","a","t","i","o","n","a","l">>
    , <<"n","a","t","u","r","a","l">>
    , <<"n","c","h","a","r">>
    , <<"n","o">>
    , <<"n","o","t">>
    , <<"n","u","l","l">>
    , <<"n","u","m","e","r","i","c">>
    , <<"o","c","t","e","t","_","l","e","n","g","t","h">>
    , <<"o","f">>
    , <<"o","f","f","s","e","t">>
    , <<"o","n">>
    , <<"o","n","l","y">>
    , <<"o","p","e","n">>
    , <<"o","r">>
    , <<"o","r","d","e","r">>
    , <<"o","u","t","e","r">>
    , <<"o","v","e","r">>
    , <<"p","a","r","a","m","e","t","e","r">>
    , <<"p","l","a","n">>
    , <<"p","o","s","i","t","i","o","n">>
    , <<"p","o","s","t","_","e","v","e","n","t">>
    , <<"p","r","e","c","i","s","i","o","n">>
    , <<"p","r","i","m","a","r","y">>
    , <<"p","r","o","c","e","d","u","r","e">>
    , <<"p","u","b","l","i","c","a","t","i","o","n">>
    , <<"r","d","b","$","d","b","_","k","e","y">>
    , <<"r","d","b","$","e","r","r","o","r">>
    , <<"r","d","b","$","g","e","t","_","c","o","n","t","e","x","t">>
    , <<"r","d","b","$","g","e","t","_","t","r","a","n","s","a","c","t","i","o","n","_","c","n">>
    , <<"r","d","b","$","r","e","c","o","r","d","_","v","e","r","s","i","o","n">>
    , <<"r","d","b","$","r","o","l","e","_","i","n","_","u","s","e">>
    , <<"r","d","b","$","s","e","t","_","c","o","n","t","e","x","t">>
    , <<"r","d","b","$","s","y","s","t","e","m","_","p","r","i","v","i","l","e","g","e">>
    , <<"r","e","a","l">>
    , <<"r","e","c","o","r","d","_","v","e","r","s","i","o","n">>
    , <<"r","e","c","r","e","a","t","e">>
    , <<"r","e","c","u","r","s","i","v","e">>
    , <<"r","e","f","e","r","e","n","c","e","s">>
    , <<"r","e","g","r","_","a","v","g","x">>
    , <<"r","e","g","r","_","a","v","g","y">>
    , <<"r","e","g","r","_","c","o","u","n","t">>
    , <<"r","e","g","r","_","i","n","t","e","r","c","e","p","t">>
    , <<"r","e","g","r","_","r","2">>
    , <<"r","e","g","r","_","s","l","o","p","e">>
    , <<"r","e","g","r","_","s","x","x">>
    , <<"r","e","g","r","_","s","x","y">>
    , <<"r","e","g","r","_","s","y","y">>
    , <<"r","e","l","e","a","s","e">>
    , <<"r","e","s","e","t","t","i","n","g">>
    , <<"r","e","t","u","r","n">>
    , <<"r","e","t","u","r","n","i","n","g","_","v","a","l","u","e","s">>
    , <<"r","e","t","u","r","n","s">>
    , <<"r","e","v","o","k","e">>
    , <<"r","i","g","h","t">>
    , <<"r","o","l","l","b","a","c","k">>
    , <<"r","o","w">>
    , <<"r","o","w","s">>
    , <<"r","o","w","_","c","o","u","n","t">>
    , <<"s","a","v","e","p","o","i","n","t">>
    , <<"s","c","r","o","l","l">>
    , <<"s","e","c","o","n","d">>
    , <<"s","e","l","e","c","t">>
    , <<"s","e","n","s","i","t","i","v","e">>
    , <<"s","e","t">>
    , <<"s","i","m","i","l","a","r">>
    , <<"s","m","a","l","l","i","n","t">>
    , <<"s","o","m","e">>
    , <<"s","q","l","c","o","d","e">>
    , <<"s","q","l","s","t","a","t","e">>
    , <<"s","t","a","r","t">>
    , <<"s","t","d","d","e","v","_","p","o","p">>
    , <<"s","t","d","d","e","v","_","s","a","m","p">>
    , <<"s","u","m">>
    , <<"t","a","b","l","e">>
    , <<"t","h","e","n">>
    , <<"t","i","m","e">>
    , <<"t","i","m","e","s","t","a","m","p">>
    , <<"t","i","m","e","z","o","n","e","_","h","o","u","r">>
    , <<"t","i","m","e","z","o","n","e","_","m","i","n","u","t","e">>
    , <<"t","o">>
    , <<"t","r","a","i","l","i","n","g">>
    , <<"t","r","i","g","g","e","r">>
    , <<"t","r","i","m">>
    , <<"t","r","u","e">>
    , <<"u","n","b","o","u","n","d","e","d">>
    , <<"u","n","i","o","n">>
    , <<"u","n","i","q","u","e">>
    , <<"u","n","k","n","o","w","n">>
    , <<"u","p","d","a","t","e">>
    , <<"u","p","d","a","t","i","n","g">>
    , <<"u","p","p","e","r">>
    , <<"u","s","e","r">>
    , <<"u","s","i","n","g">>
    , <<"v","a","l","u","e">>
    , <<"v","a","l","u","e","s">>
    , <<"v","a","r","b","i","n","a","r","y">>
    , <<"v","a","r","c","h","a","r">>
    , <<"v","a","r","i","a","b","l","e">>
    , <<"v","a","r","y","i","n","g">>
    , <<"v","a","r","_","p","o","p">>
    , <<"v","a","r","_","s","a","m","p">>
    , <<"v","i","e","w">>
    , <<"w","h","e","n">>
    , <<"w","h","e","r","e">>
    , <<"w","h","i","l","e">>
    , <<"w","i","n","d","o","w">>
    , <<"w","i","t","h">>
    , <<"w","i","t","h","o","u","t">>
    , <<"y","e","a","r">>
    }

\* compiler.ILLEGAL_INITIAL_CHARACTERS (the digits and "$") plus "_"
illegal_initial_characters == (Digits \cup { "$" }) \cup { "_" }

\* IdentifierPreparer.legal_characters: ^[A-Z0-9_$]+$, case-insensitive
legal_characters(value) ==
    /\ value # << >>
    /\ \A i \in 1..Len(value) :
          \/ IsUpperChar(value[i])
          \/ IsLowerChar(value[i])
          \/ value[i] \in Digits
          \/ value[i] \in { "_", "$" }

\* A name is a Python str or a quoted_name: its text, and whether it is a
\* quoted_name with quote=True.  Two names are equal (and hash alike) when
\* their text is.
PyStr(text) == [text |-> text, quote |-> FALSE]
QuotedName(text) == [text |-> text, quote |-> TRUE]

\* name.lower() and name.upper(): a quoted_name with quote=True returns itself
name_lower(name) == IF name.quote THEN name.text ELSE lower(name.text)
name_upper(name) == IF name.quote THEN name.text ELSE upper(name.text)

\* _requires_quotes accepting every name whose text has legal characters
requires_quotes_no_initial_test(value) ==
    \/ name_lower(value) \in RESERVED_WORDS
    \/ ~ legal_characters(value.text)
    \/ name_lower(value) # value.text

\* IdentifierPreparer._requires_quotes with the reserved words and the
\* illegal initial characters FBIdentifierPreparer installs
requires_quotes(value) ==
    \/ name_lower(value) \in RESERVED_WORDS
    \/ value.text[1] \in illegal_initial_characters
    \/ ~ legal_characters(value.text)
    \/ name_lower(value) # value.text

\* DefaultDialect.normalize_name: an all-uppercase catalog name that needs no
\* quotes is lower-cased, a lower-case one becomes a quoted_name, every
\* other name is kept
normalize_name(name) ==
    IF name_upper(name) = name_lower(name) THEN name
    ELSE IF /\ name_upper(name) = name.text
            /\ ~ requires_quotes(PyStr(name_lower(name)))
         THEN PyStr(name_lower(name))
    ELSE IF name_lower(name) = name.text THEN QuotedName(name.text)
    ELSE name

\* DefaultDialect.denormalize_name: a lower-case name that needs no quotes
\* is upper-cased, every other name is kept
denormalize_name(name) ==
    IF name_upper(name) = name_lower(name) THEN name
    ELSE IF /\ name_lower(name) = name.text
            /\ ~ requires_quotes(PyStr(name_lower(name)))
         THEN PyStr(name_upper(name))
    ELSE name

-----------------------------------------------------------------------------
(* Types and the static type tables *)

T_SHORT     == << "S","H","O","R","T" >>
T_LONG      == << "L","O","N","G" >>
T_QUAD      == << "Q","U","A","D" >>
T_FLOAT     == << "F","L","O","A","T" >>
T_DATE      == << "D","A","T","E" >>
T_TIME      == << "T","I","M","E" >>
T_TEXT      == << "T","E","X","T" >>
T_INT64     == << "I","N","T","6","4" >>
T_DOUBLE    == << "D","O","U","B","L","E" >>
T_TIMESTAMP == << "T","I","M","E","S","T","A","M","P" >>
T_VARYING   == << "V","A","R","Y","I","N","G" >>
T_CSTRING   == << "C","S","T","R","I","N","G" >>
T_BLOB      == << "B","L","O","B" >>

\* the module-level ischema_names: catalog type name -> type class
static_ischema_names ==
    (T_SHORT :> "SMALLINT") @@ (T_LONG :> "INTEGER") @@ (T_QUAD :> "FLOAT") @@
    (T_FLOAT :> "FLOAT") @@ (T_DATE :> "DATE") @@ (T_TIME :> "TIME") @@
    (T_TEXT :> "TEXT") @@ (T_INT64 :> "BIGINT") @@ (T_DOUBLE :> "FLOAT") @@
    (T_TIMESTAMP :> "TIMESTAMP") @@ (T_VARYING :> "VARCHAR") @@
    (T_CSTRING :> "CHAR") @@ (T_BLOB :> "BLOB")

\* the module-level colspecs
static_colspecs == ("DateTime" :> "_FBDateTime")

\* dict.get: None when the key is missing
DictGet(dict, key) == IF key \in DOMAIN dict THEN Some(dict[key]) ELSE None

-----------------------------------------------------------------------------
(* Dialect capability negotiation: FBDialect.initialize *)

Dialects == { "d1", "d2" }

\* max_identifier_length of a dialect before initialize (the inherited default)
DefaultMaxIdentifierLength == 9999

\* the two lengths initialize chooses between, and the engine version (in
\* tenths: 4.0 is 40) that separates them
LegacyMaxIdentifierLength == 31
ModernMaxIdentifierLength == 252
EngineVersion4x10 == 40

\* Python's t >= s on tuples: the first differing element decides, and a
\* tuple is greater than each of its proper prefixes
RECURSIVE TupleGE(_, _)
TupleGE(t, s) ==
    IF s = << >> THEN TRUE
    ELSE IF t = << >> THEN FALSE
    ELSE IF t[1] # s[1] THEN t[1] > s[1]
    ELSE TupleGE(Tail(t), Tail(s))

\* x in t, for a string x and a version tuple t: the numbers of t are not
\* strings, so x is in t exactly when it is the product name that ends t
TupleContains(t, x) == t # << >> /\ t[Len(t)] = x

\* the generation test with the major version compared by > where the code
\* compares by >=
detect_version_two_strict(info) ==
    \/ /\ TupleContains(info, "firebird")
       /\ info[1] > 2
    \/ /\ TupleContains(info, "interbase")
       /\ info[1] > 6

\* the value initialize gives self._version_two
detect_version_two(info) ==
    \/ /\ TupleContains(info, "firebird")
       /\ TupleGE(info, << 2 >>)
    \/ /\ TupleContains(info, "interbase")
       /\ TupleGE(info, << 6 >>)

\* the type map read from the class, whatever the instance holds
self_ischema_names_of_class(d) == ischema_names

\* the type map a dialect instance reads: its own attribute when initialize
\* has set one, the class attribute (the module-level table) otherwise
self_ischema_names(d) ==
    IF inst_ischema_names[d] = None THEN ischema_names
    ELSE The(inst_ischema_names[d])

self_colspecs(d) ==
    IF inst_colspecs[d] = None THEN colspecs
    ELSE The(inst_colspecs[d])

\* self.__dict__.get("implicit_returning", True)
dict_get_implicit_returning(d) ==
    IF implicit_returning[d] = None THEN TRUE ELSE The(implicit_returning[d])

\* initialize, choosing the maximum identifier length by the generation
\* instead of by the engine version of the driver
initialize_length_by_generation(d) ==
    LET info == server[d].server_version_info
        v2   == detect_version_two(info)
    IN  /\ server_version_info' = [server_version_info EXCEPT ![d] = Some(info)]
        /\ version_two' = [version_two EXCEPT ![d] = v2]
        /\ IF ~ v2
           THEN /\ inst_ischema_names' =
                     [inst_ischema_names EXCEPT
                        ![d] = Some([ischema_names EXCEPT ![T_TIMESTAMP] = "DATE"])]
                /\ inst_colspecs' =
                     [inst_colspecs EXCEPT ![d] = Some("DateTime" :> "DATE")]
           ELSE UNCHANGED << inst_ischema_names, inst_colspecs >>
        /\ implicit_returning' =
             [implicit_returning EXCEPT
                ![d] = Some(v2 /\ dict_get_implicit_returning(d))]
        /\ max_identifier_length' =
             [max_identifier_length EXCEPT
                ![d] = IF ~ v2
                       THEN LegacyMaxIdentifierLength
                       ELSE ModernMaxIdentifierLength]
        /\ initialized' = [initialized EXCEPT ![d] = TRUE]
        /\ last' = [op |-> "initialize", d |-> d]
        /\ UNCHANGED << statics, environment, pc >>

\* FBDialect.initialize (base.py:542-565), run as one step
initialize(d) ==
    LET info == server[d].server_version_info
        v2   == detect_version_two(info)
    IN  /\ server_version_info' = [server_version_info EXCEPT ![d] = Some(info)]
        /\ version_two' = [version_two EXCEPT ![d] = v2]
        /\ IF ~ v2
           THEN /\ inst_ischema_names' =
                     [inst_ischema_names EXCEPT
                        ![d] = Some([ischema_names EXCEPT ![T_TIMESTAMP] = "DATE"])]
                /\ inst_colspecs' =
                     [inst_colspecs EXCEPT ![d] = Some("DateTime" :> "DATE")]
           ELSE UNCHANGED << inst_ischema_names, inst_colspecs >>
        /\ implicit_returning' =
             [implicit_returning EXCEPT
                ![d] = Some(v2 /\ dict_get_implicit_returning(d))]
        /\ max_identifier_length' =
             [max_identifier_length EXCEPT
                ![d] = IF server[d].engine_version_x10 < EngineVersion4x10
                       THEN LegacyMaxIdentifierLength
                       ELSE ModernMaxIdentifierLength]
        /\ initialized' = [initialized EXCEPT ![d] = TRUE]
        /\ last' = [op |-> "initialize", d |-> d]
        /\ UNCHANGED << statics, environment, pc >>

\* FBDialect.initialize run statement by statement, so that the calls of two
\* threads on two dialects interleave; pc[d] is the statement d stands at.
\* The inherited initialize and the generation test (base.py:543-550).
initialize_version(d) ==
    /\ pc[d] = "idle"
    /\ LET info == server[d].server_version_info
       IN  /\ server_version_info' = [server_version_info EXCEPT ![d] = Some(info)]
           /\ version_two' = [version_two EXCEPT ![d] = detect_version_two(info)]
    /\ pc' = [pc EXCEPT ![d] = "types"]
    /\ UNCHANGED << statics, environment, inst_ischema_names, inst_colspecs,
                    implicit_returning, max_identifier_length, initialized, last >>

\* the Legacy override written into the module-level tables themselves
\* instead of into a copy held by the instance
initialize_types_patching_class_table(d) ==
    /\ pc[d] = "types"
    /\ IF ~ version_two[d]
       THEN /\ ischema_names' = [ischema_names EXCEPT ![T_TIMESTAMP] = "DATE"]
            /\ colspecs' = ("DateTime" :> "DATE")
       ELSE UNCHANGED statics
    /\ pc' = [pc EXCEPT ![d] = "returning"]
    /\ UNCHANGED << environment, inst_ischema_names, inst_colspecs,
                    server_version_info, version_two,
                    implicit_returning, max_identifier_length, initialized, last >>

\* the Legacy override of the type map and the column specifications
\* (base.py:552-556)
initialize_types(d) ==
    /\ pc[d] = "types"
    /\ IF ~ version_two[d]
       THEN /\ inst_ischema_names' =
                 [inst_ischema_names EXCEPT
                    ![d] = Some([ischema_names EXCEPT ![T_TIMESTAMP] = "DATE"])]
            /\ inst_colspecs' =
                 [inst_colspecs EXCEPT ![d] = Some("DateTime" :> "DATE")]
       ELSE UNCHANGED << inst_ischema_names, inst_colspecs >>
    /\ pc' = [pc EXCEPT ![d] = "returning"]
    /\ UNCHANGED << statics, environment, server_version_info, version_two,
                    implicit_returning, max_identifier_length, initialized, last >>

\* implicit RETURNING (base.py:558-560)
initialize_returning(d) ==
    /\ pc[d] = "returning"
    /\ implicit_returning' =
         [implicit_returning EXCEPT
            ![d] = Some(version_two[d] /\ dict_get_implicit_returning(d))]
    /\ pc' = [pc EXCEPT ![d] = "length"]
    /\ UNCHANGED << statics, environment, server_version_info, version_two,
                    inst_ischema_names, inst_colspecs, max_identifier_length,
                    initialized, last >>

\* the maximum identifier length (base.py:562-565), and the return
initialize_length(d) ==
    /\ pc[d] = "length"
    /\ max_identifier_length' =
         [max_identifier_length EXCEPT
            ![d] = IF server[d].engine_version_x10 < EngineVersion4x10
                   THEN LegacyMaxIdentifierLength
                   ELSE ModernMaxIdentifierLength]
    /\ initialized' = [initialized EXCEPT ![d] = TRUE]
    /\ last' = [op |-> "initialize", d |-> d]
    /\ pc' = [pc EXCEPT ![d] = "idle"]
    /\ UNCHANGED << statics, environment, server_version_info, version_two,
                    inst_ischema_names, inst_colspecs, implicit_returning >>

-----------------------------------------------------------------------------
(* SQL rendering overrides.  Rendered SQL is a sequence of text fragments; *)
(* a call either returns a value or raises.                                *)

Return(value) == [raised |-> "", ret |-> value]
Raise(exc) == [raised |-> exc, ret |-> None]

\* the characters of s as one string
RECURSIVE Str(_)
Str(s) == IF s = << >> THEN "" ELSE s[1] \o Str(Tail(s))

\* IdentifierPreparer.quote: the name, in double quotes when it is a
\* quoted_name with quote=True or requires quotes
quote(name) ==
    IF name.quote \/ requires_quotes(name)
    THEN "\"" \o Str(name.text) \o "\""
    ELSE Str(name.text)

\* FBCompiler.process of a limit or offset expression
process_expr(e) == ToString(e)

\* the inherited get_select_precolumns
super_get_select_precolumns(select) ==
    IF select.distinct THEN << "DISTINCT " >> ELSE << >>

\* get_select_precolumns testing the clauses for truth, where the code tests
\* them against None
get_select_precolumns_truthy(select) ==
    super_get_select_precolumns(select)
    \o (IF select.limit_clause # None /\ The(select.limit_clause) # 0
        THEN << "FIRST (", process_expr(The(select.limit_clause)), ") " >>
        ELSE << >>)
    \o (IF select.offset_clause # None /\ The(select.offset_clause) # 0
        THEN << "SKIP (", process_expr(The(select.offset_clause)), ") " >>
        ELSE << >>)

\* FBCompiler.get_select_precolumns
get_select_precolumns(select) ==
    super_get_select_precolumns(select)
    \o (IF select.limit_clause # None
        THEN << "FIRST (", process_expr(The(select.limit_clause)), ") " >>
        ELSE << >>)
    \o (IF select.offset_clause # None
        THEN << "SKIP (", process_expr(The(select.offset_clause)), ") " >>
        ELSE << >>)

\* FBCompiler.limit_clause
limit_clause(select) == << >>

\* FBCompiler.visit_alias; the element renders as one fragment
visit_alias(d, alias, asfrom) ==
    IF version_two[d]
    THEN \* the inherited rendering
         IF asfrom
         THEN << alias.element, " AS ", quote(alias.name) >>
         ELSE << alias.element >>
    ELSE IF asfrom
         THEN << alias.element, " ", quote(alias.name) >>
         ELSE << alias.element >>

\* FBDDLCompiler.visit_create_sequence without the test of the increment
visit_create_sequence_no_increment_test(d, seq) ==
    IF seq.start # None THEN Raise("NotImplementedError")
    ELSE IF version_two[d]
         THEN Return(<< "CREATE SEQUENCE ", quote(seq.name) >>)
         ELSE Return(<< "CREATE GENERATOR ", quote(seq.name) >>)

\* FBDDLCompiler.visit_create_sequence
visit_create_sequence(d, seq) ==
    IF seq.start # None THEN Raise("NotImplementedError")
    ELSE IF seq.increment # None THEN Raise("NotImplementedError")
    ELSE IF version_two[d]
         THEN Return(<< "CREATE SEQUENCE ", quote(seq.name) >>)
         ELSE Return(<< "CREATE GENERATOR ", quote(seq.name) >>)

\* FBDDLCompiler.visit_drop_sequence
visit_drop_sequence(d, seq) ==
    IF version_two[d]
    THEN Return(<< "DROP SEQUENCE ", quote(seq.name) >>)
    ELSE Return(<< "DROP GENERATOR ", quote(seq.name) >>)

\* FBDDLCompiler.visit_computed_column
visit_computed_column(generated) ==
    IF generated.persisted # None THEN Raise("CompileError")
    ELSE Return(<< "GENERATED ALWAYS AS (", generated.sqltext, ")" >>)

\* FBTypeCompiler._extend_string
extend_string(type_, basic) ==
    IF type_.charset = None THEN basic
    ELSE basic \o << " CHARACTER SET ", The(type_.charset) >>

\* the inherited visit_CHAR and visit_VARCHAR: the name, and the length in
\* parentheses when there is one
render_string_type(type_, name) ==
    IF type_.length # None /\ The(type_.length) # 0
    THEN << name, "(", ToString(The(type_.length)), ")" >>
    ELSE << name >>

\* FBTypeCompiler.visit_CHAR
visit_CHAR(type_) == Return(extend_string(type_, render_string_type(type_, "CHAR")))

\* FBTypeCompiler.visit_VARCHAR
visit_VARCHAR(type_) ==
    IF type_.length = None \/ The(type_.length) = 0
    THEN Raise("CompileError")
    ELSE Return(extend_string(type_, render_string_type(type_, "VARCHAR")))

\* FBTypeCompiler.process: the visit method the type's class selects
type_compiler_process(type_) ==
    CASE type_.cls = "Boolean"  -> Return(<< "SMALLINT" >>)
      [] type_.cls = "DateTime" -> Return(<< "TIMESTAMP" >>)
      [] type_.cls = "TEXT"     -> Return(<< "BLOB SUB_TYPE 1" >>)
      [] type_.cls = "BLOB"     -> Return(<< "BLOB SUB_TYPE 0" >>)
      [] type_.cls = "CHAR"     -> visit_CHAR(type_)
      [] type_.cls = "VARCHAR"  -> visit_VARCHAR(type_)
      [] OTHER                  -> Return(<< type_.cls >>)

\* str(column.type): the type's name under the default dialect
str_type(type_) ==
    IF type_.cls \in { "CHAR", "VARCHAR" }
    THEN render_string_type(type_, type_.cls)
    ELSE << type_.cls >>

\* FBDDLCompiler.get_column_specification
get_column_specification(column) ==
    LET computed == IF column.computed # None
                    THEN visit_computed_column(The(column.computed))
                    ELSE Return(<< >>)
        typ      == type_compiler_process(column.type)
        identity == column.is_autoincrement_column \/ column.autoincrement = "True"
        head     == << quote(column.name) >>
        typed    == IF column.computed # None
                    THEN head \o << " " >> \o str_type(column.type)
                              \o << " " >> \o computed.ret
                    ELSE head \o << " " >> \o typ.ret
        dflt     == IF identity
                    THEN typed \o << " GENERATED BY DEFAULT AS IDENTITY (START WITH ",
                                     ToString(column.identity_start), ")" >>
                    ELSE IF column.server_default # None
                    THEN typed \o << " DEFAULT ", The(column.server_default) >>
                    ELSE typed
        notnull  == /\ column.nullable # None
                    /\ \/ ~ The(column.nullable)
                       \/ column.primary_key
                       \/ column.default_is_sequence
                       \/ column.autoincrement = "True"
    IN  IF column.computed # None /\ computed.raised # "" THEN computed
        ELSE IF column.computed = None /\ typ.raised # "" THEN typ
        ELSE Return(IF notnull THEN dflt \o << " NOT NULL" >> ELSE dflt)

-----------------------------------------------------------------------------
(* The system catalog and the SQL the reflection queries rely on.  The     *)
(* catalog is a record of tables, each a set of rows; a column that may be *)
(* NULL holds {} or {v}.  Names are stored as CHAR: blank-padded.          *)

\* the width the model's catalogs pad names to
RdbNameWidth == 10

Pad(name) ==
    IF Len(name) >= RdbNameWidth THEN name
    ELSE name \o Repeat(" ", RdbNameWidth - Len(name))

\* SQL TRIM(x): leading and trailing blanks removed
RECURSIVE SqlLTrim(_)
SqlLTrim(s) == IF s # << >> /\ s[1] = " " THEN SqlLTrim(Tail(s)) ELSE s

RECURSIVE SqlRTrim(_)
SqlRTrim(s) ==
    IF s # << >> /\ s[Len(s)] = " "
    THEN SqlRTrim(SubSeq(s, 1, Len(s) - 1))
    ELSE s

SqlTrim(s) == SqlRTrim(SqlLTrim(s))

\* SQL x = y on character values: trailing blanks do not count
SqlEq(x, y) == SqlRTrim(x) = SqlRTrim(y)

\* the collation of ORDER BY on a name: character codes, in ASCII order
CharOrder ==
    << " ", "$" >> \o
    << "0","1","2","3","4","5","6","7","8","9" >> \o UpperLetters \o
    << "_" >> \o LowerLetters

Ord(c) == CHOOSE i \in 1..Len(CharOrder) : CharOrder[i] = c

RECURSIVE NameLess(_, _)
NameLess(a, b) ==
    IF b = << >> THEN FALSE
    ELSE IF a = << >> THEN TRUE
    ELSE IF a[1] # b[1] THEN Ord(a[1]) < Ord(b[1])
    ELSE NameLess(Tail(a), Tail(b))

\* every order a query may return the rows in under an ORDER BY whose
\* strict comparison is Before: rows it does not separate come in any order
OrderBy(rows, Before(_, _)) ==
    LET RECURSIVE Orders(_)
        Orders(left) ==
            IF left = { } THEN { << >> }
            ELSE UNION { { << first >> \o rest : rest \in Orders(left \ { first }) } :
                           first \in { r \in left : \A q \in left : ~ Before(q, r) } }
    IN  Orders(rows)

\* every order in which a query without ORDER BY may return the rows
AnyOrder(rows) == LET Before(a, b) == FALSE IN OrderBy(rows, Before)

\* the rows of a list, each mapped by F
MapSeq(F(_), rows) == [i \in 1..Len(rows) |-> F(rows[i])]

\* one query the program sent: which statement, with which parameters
Query(statement, params) == [statement |-> statement, params |-> params]

-----------------------------------------------------------------------------
(* Catalogs *)

\* a row of rdb$relations
Relation(name, view_blr, view_source, system_flag, relation_type, description) ==
    [ relation_name |-> Pad(name), view_blr |-> view_blr,
      view_source |-> view_source, system_flag |-> system_flag,
      relation_type |-> relation_type, description |-> description ]

\* a row of rdb$relation_fields
RelationField(relation, name, source, position, null_flag, default_source) ==
    [ relation_name |-> Pad(relation), field_name |-> Pad(name),
      field_source |-> Pad(source), field_position |-> position,
      null_flag |-> null_flag, default_source |-> default_source ]

\* a row of rdb$fields
Field(name, type, sub_type, length, precision, scale, character_set_id) ==
    [ field_name |-> Pad(name), field_type |-> type, field_sub_type |-> sub_type,
      field_length |-> length, field_precision |-> precision,
      field_scale |-> scale, default_source |-> None, computed_source |-> None,
      character_set_id |-> character_set_id, system_flag |-> Some(0) ]

\* the rows of rdb$types that name the field types
RdbTypes ==
    { [ type |-> 7,   type_name |-> Pad(T_SHORT),     field_name |-> "RDB$FIELD_TYPE" ],
      [ type |-> 8,   type_name |-> Pad(T_LONG),      field_name |-> "RDB$FIELD_TYPE" ],
      [ type |-> 9,   type_name |-> Pad(T_QUAD),      field_name |-> "RDB$FIELD_TYPE" ],
      [ type |-> 10,  type_name |-> Pad(T_FLOAT),     field_name |-> "RDB$FIELD_TYPE" ],
      [ type |-> 12,  type_name |-> Pad(T_DATE),      field_name |-> "RDB$FIELD_TYPE" ],
      [ type |-> 13,  type_name |-> Pad(T_TIME),      field_name |-> "RDB$FIELD_TYPE" ],
      [ type |-> 14,  type_name |-> Pad(T_TEXT),      field_name |-> "RDB$FIELD_TYPE" ],
      [ type |-> 16,  type_name |-> Pad(T_INT64),     field_name |-> "RDB$FIELD_TYPE" ],
      [ type |-> 23,  type_name |-> Pad(<< "B","O","O","L","E","A","N" >>), field_name |-> "RDB$FIELD_TYPE" ],
      [ type |-> 27,  type_name |-> Pad(T_DOUBLE),    field_name |-> "RDB$FIELD_TYPE" ],
      [ type |-> 35,  type_name |-> Pad(T_TIMESTAMP), field_name |-> "RDB$FIELD_TYPE" ],
      [ type |-> 37,  type_name |-> Pad(T_VARYING),   field_name |-> "RDB$FIELD_TYPE" ],
      [ type |-> 40,  type_name |-> Pad(T_CSTRING),   field_name |-> "RDB$FIELD_TYPE" ],
      [ type |-> 261, type_name |-> Pad(T_BLOB),      field_name |-> "RDB$FIELD_TYPE" ],
      [ type |-> 1,   type_name |-> Pad(<< "T","E","X","T" >>),    field_name |-> "RDB$FIELD_SUB_TYPE" ] }

RdbCharacterSets ==
    { [ character_set_id |-> 0, bytes_per_character |-> 1 ],
      [ character_set_id |-> 4, bytes_per_character |-> 4 ] }

\* a row of rdb$relation_constraints, rdb$indices, rdb$index_segments
Constraint(name, type, relation, index) ==
    [ constraint_name |-> Pad(name), constraint_type |-> type,
      relation_name |-> Pad(relation), index_name |-> Pad(index) ]

Index(name, relation, foreign_key, unique_flag) ==
    [ index_name |-> Pad(name), relation_name |-> Pad(relation),
      foreign_key |-> IF foreign_key = None THEN None ELSE Some(Pad(The(foreign_key))),
      unique_flag |-> unique_flag ]

Segment(index, field, position) ==
    [ index_name |-> Pad(index), field_name |-> Pad(field),
      field_position |-> position ]

\* a row of rdb$dependencies, rdb$triggers
Dependency(dependent, depended_on, field, dependent_type, depended_on_type) ==
    [ dependent_name |-> Pad(dependent), depended_on_name |-> Pad(depended_on),
      field_name |-> IF field = None THEN None ELSE Some(Pad(The(field))),
      dependent_type |-> dependent_type, depended_on_type |-> depended_on_type ]

Trigger(name, type) == [ trigger_name |-> Pad(name), trigger_type |-> type ]

\* A database with the tables EMP (ID, NAME, DEPT_ID, ACTIVE, HIRED) and
\* DEPT (ID), the view V_EMP and the generator GEN_EMP: EMP.ID is fed from
\* GEN_EMP by the trigger TR_EMP and EMP.DEPT_ID references DEPT.ID.
SampleDb ==
    [ relations |->
        { Relation(<< "E","M","P" >>, None, None, Some(0), Some(0), Some("staff")),
          Relation(<< "D","E","P","T" >>, None, None, None, Some(0), None),
          Relation(<< "V","_","E","M","P" >>, Some("blr"), Some("SELECT ID FROM EMP"), Some(0),
                   Some(1), None),
          Relation(<< "R","D","B","$","T","Y","P","E","S" >>, None, None, Some(1), Some(0), None) },
      generators |->
        { [ generator_name |-> Pad(<< "G","E","N","_","E","M","P" >>), system_flag |-> Some(0) ] },
      relation_fields |->
        { RelationField(<< "E","M","P" >>, << "I","D" >>, << "R","D","B","$","1" >>, 0, Some(1), None),
          RelationField(<< "E","M","P" >>, << "N","A","M","E" >>, << "R","D","B","$","2" >>, 1, None,
                        Some(<< "D","E","F","A","U","L","T"," ","'","x","'" >>)),
          RelationField(<< "E","M","P" >>, << "D","E","P","T","_","I","D" >>, << "R","D","B","$","3" >>, 2, None, None),
          RelationField(<< "E","M","P" >>, << "A","C","T","I","V","E" >>, << "R","D","B","$","5" >>, 3, None, None),
          RelationField(<< "E","M","P" >>, << "H","I","R","E","D" >>, << "R","D","B","$","6" >>, 4, None, None),
          RelationField(<< "D","E","P","T" >>, << "I","D" >>, << "R","D","B","$","4" >>, 0, Some(1), None) },
      fields |->
        { Field(<< "R","D","B","$","1" >>, 8, Some(0), 4, Some(0), Some(0), None),
          Field(<< "R","D","B","$","2" >>, 37, Some(0), 80, None, Some(0), Some(4)),
          Field(<< "R","D","B","$","3" >>, 8, Some(0), 4, Some(0), Some(0), None),
          Field(<< "R","D","B","$","4" >>, 8, Some(0), 4, Some(0), Some(0), None),
          Field(<< "R","D","B","$","5" >>, 23, None, 1, None, Some(0), None),
          Field(<< "R","D","B","$","6" >>, 35, None, 8, None, Some(0), None) },
      types |-> RdbTypes,
      character_sets |-> RdbCharacterSets,
      relation_constraints |->
        { Constraint(<< "P","K","_","E","M","P" >>, "PRIMARY KEY", << "E","M","P" >>, << "P","K","_","E","M","P" >>),
          Constraint(<< "P","K","_","D","E","P","T" >>, "PRIMARY KEY", << "D","E","P","T" >>, << "P","K","_","D","E","P","T" >>),
          Constraint(<< "F","K","_","E","M","P","_","D" >>, "FOREIGN KEY", << "E","M","P" >>, << "F","K","_","E","M","P","_","D" >>) },
      indices |->
        { Index(<< "P","K","_","E","M","P" >>, << "E","M","P" >>, None, Some(1)),
          Index(<< "P","K","_","D","E","P","T" >>, << "D","E","P","T" >>, None, Some(1)),
          Index(<< "F","K","_","E","M","P","_","D" >>, << "E","M","P" >>, Some(<< "P","K","_","D","E","P","T" >>), None),
          Index(<< "I","X","_","N","A","M","E" >>, << "E","M","P" >>, None, Some(0)) },
      index_segments |->
        { Segment(<< "P","K","_","E","M","P" >>, << "I","D" >>, 0),
          Segment(<< "P","K","_","D","E","P","T" >>, << "I","D" >>, 0),
          Segment(<< "F","K","_","E","M","P","_","D" >>, << "D","E","P","T","_","I","D" >>, 0),
          Segment(<< "I","X","_","N","A","M","E" >>, << "N","A","M","E" >>, 0) },
      dependencies |->
        { Dependency(<< "T","R","_","E","M","P" >>, << "E","M","P" >>, Some(<< "I","D" >>), 2, 0),
          Dependency(<< "T","R","_","E","M","P" >>, << "G","E","N","_","E","M","P" >>, None, 2, 14) },
      triggers |-> { Trigger(<< "T","R","_","E","M","P" >>, 1) } ]

\* A database with the one table EMP and in it the one column the selector
\* describes: its name, its field type code, precision and scale, and its
\* default source.
ColumnDb(sel) ==
    [ relations |->
        { Relation(<< "E","M","P" >>, None, None, Some(0), Some(0), None) },
      generators |-> { },
      relation_fields |->
        { RelationField(<< "E","M","P" >>, sel.fname, << "R","D","B","$","1" >>, 0, None, sel.fdefault) },
      fields |->
        { Field(<< "R","D","B","$","1" >>, sel.ftype, None, 4, sel.fprec, sel.fscale, None) },
      types |-> RdbTypes,
      character_sets |-> RdbCharacterSets,
      relation_constraints |-> { },
      indices |-> { },
      index_segments |-> { },
      dependencies |-> { },
      triggers |-> { } ]

\* the index a foreign key of the selector references: its table and its
\* columns in position order
TargetTable(index) ==
    CASE index = << "P","K","_","D","E","P","T" >> -> << "D","E","P","T" >>
      [] index = << "P","K","_","P","R","O","J" >> -> << "P","R","O","J" >>

TargetColumns(index) ==
    CASE index = << "P","K","_","D","E","P","T" >> -> << << "X" >>, << "Y" >> >>
      [] index = << "P","K","_","P","R","O","J" >> -> << << "P" >> >>

\* A database with the tables DEPT (primary key X, Y), PROJ (primary key P)
\* and EMP (A, B, C, D): EMP has the foreign keys the selector lists, each
\* with its constraint name, its columns in position order and the primary
\* key index it references.  The index of a foreign key bears the
\* constraint's name.
FkDb(sel) ==
    [ relations |->
        { Relation(name, None, None, Some(0), Some(0), None) :
            name \in { << "E","M","P" >>, << "D","E","P","T" >>, << "P","R","O","J" >> } },
      generators |-> { },
      relation_fields |-> { },
      fields |-> { },
      types |-> RdbTypes,
      character_sets |-> RdbCharacterSets,
      relation_constraints |->
        { Constraint(index, "PRIMARY KEY", TargetTable(index), index) :
            index \in { << "P","K","_","D","E","P","T" >>, << "P","K","_","P","R","O","J" >> } }
        \cup { Constraint(f.name, "FOREIGN KEY", << "E","M","P" >>, f.name) : f \in sel.fks },
      indices |->
        { Index(index, TargetTable(index), None, Some(1)) :
            index \in { << "P","K","_","D","E","P","T" >>, << "P","K","_","P","R","O","J" >> } }
        \cup { Index(f.name, << "E","M","P" >>, Some(f.target), None) : f \in sel.fks },
      index_segments |->
        UNION { { Segment(index, TargetColumns(index)[k], k - 1) :
                    k \in 1..Len(TargetColumns(index)) } :
                  index \in { << "P","K","_","D","E","P","T" >>, << "P","K","_","P","R","O","J" >> } }
        \cup UNION { { Segment(f.name, f.columns[k], k - 1) :
                         k \in 1..Len(f.columns) } : f \in sel.fks },
      dependencies |-> { },
      triggers |-> { } ]

\* A database with the one table EMP whose primary key, PK_EMP, is made of
\* the columns the selector lists in position order (no key when it lists
\* none).
PkDb(sel) ==
    [ relations |->
        { Relation(<< "E","M","P" >>, None, None, Some(0), Some(0), None) },
      generators |-> { },
      relation_fields |-> { },
      fields |-> { },
      types |-> RdbTypes,
      character_sets |-> RdbCharacterSets,
      relation_constraints |->
        IF sel.columns = << >> THEN { }
        ELSE { Constraint(<< "P","K","_","E","M","P" >>, "PRIMARY KEY", << "E","M","P" >>, << "P","K","_","E","M","P" >>) },
      indices |->
        IF sel.columns = << >> THEN { }
        ELSE { Index(<< "P","K","_","E","M","P" >>, << "E","M","P" >>, None, Some(1)) },
      index_segments |->
        { Segment(<< "P","K","_","E","M","P" >>, sel.columns[k], k - 1) : k \in 1..Len(sel.columns) },
      dependencies |-> { },
      triggers |-> { } ]

\* the name of the i-th column after ID, and of its field definition
ColumnName(i) == << "C", ToString(i) >>
FieldName(i) == << "R", "D", "B", "$", ToString(i) >>

\* A database with the one table EMP: its first column, ID, is a LONG and
\* the primary key; after it come columns C1, C2, ... of the field types the
\* selector lists (a LONG with precision 0, the others without precision).
\* Each trigger of the selector is a trigger of type 1
\* that depends on EMP.ID and on the trigger's generator, and on nothing
\* else.
TableDb(sel) ==
    [ relations |->
        { Relation(<< "E","M","P" >>, None, None, Some(0), Some(0), None) },
      generators |->
        { [ generator_name |-> Pad(t.generator), system_flag |-> Some(0) ] :
            t \in sel.triggers },
      relation_fields |->
        { RelationField(<< "E","M","P" >>, << "I","D" >>, FieldName(0), 0, Some(1), None) }
        \cup { RelationField(<< "E","M","P" >>, ColumnName(i), FieldName(i), i, None, None) :
                 i \in 1..Len(sel.types) },
      fields |->
        { Field(FieldName(0), 8, Some(0), 4, Some(0), Some(0), None) }
        \cup { Field(FieldName(i), sel.types[i], None, 8,
                       IF sel.types[i] = 8 THEN Some(0) ELSE None, Some(0), None) :
                 i \in 1..Len(sel.types) },
      types |-> RdbTypes,
      character_sets |-> RdbCharacterSets,
      relation_constraints |->
        { Constraint(<< "P","K","_","E","M","P" >>, "PRIMARY KEY", << "E","M","P" >>, << "P","K","_","E","M","P" >>) },
      indices |-> { Index(<< "P","K","_","E","M","P" >>, << "E","M","P" >>, None, Some(1)) },
      index_segments |-> { Segment(<< "P","K","_","E","M","P" >>, << "I","D" >>, 0) },
      dependencies |->
        UNION { { Dependency(t.name, << "E","M","P" >>, Some(<< "I","D" >>), 2, 0),
                  Dependency(t.name, t.generator, None, 2, 14) } :
                t \in sel.triggers },
      triggers |-> { Trigger(t.name, 1) : t \in sel.triggers } ]

\* the catalog the variable db describes
rdb ==
    CASE db.kind = "sample" -> SampleDb
      [] db.kind = "column" -> ColumnDb(db)
      [] db.kind = "fk" -> FkDb(db)
      [] db.kind = "pk" -> PkDb(db)
      [] db.kind = "table" -> TableDb(db)

-----------------------------------------------------------------------------
(* Catalog reflection.  A reflection call ends in an outcome: what it      *)
(* raised ("" when it returned), what it returned and the queries it sent. *)
(* A method whose queries leave the row order open, or that takes the      *)
(* first of several rows, has a set of possible outcomes.                  *)

Outcome(raised, ret, queries) ==
    [raised |-> raised, ret |-> ret, queries |-> queries]

\* has_table refusing a name as long as the maximum (>= where the code has >)
has_table_refusing_max_length(d, table_name) ==
    IF Len(table_name.text) >= max_identifier_length[d]
    THEN Outcome("", FALSE, << >>)
    ELSE LET tbl_name == denormalize_name(table_name)
         IN  Outcome("",
                     \E r \in rdb.relations : SqlEq(r.relation_name, tbl_name.text),
                     << Query("has_table", << tbl_name >>) >>)

\* FBDialect.has_table
has_table(d, table_name) ==
    IF Len(table_name.text) > max_identifier_length[d]
    THEN Outcome("", FALSE, << >>)
    ELSE LET tbl_name == denormalize_name(table_name)
         IN  Outcome("",
                     \E r \in rdb.relations : SqlEq(r.relation_name, tbl_name.text),
                     << Query("has_table", << tbl_name >>) >>)

\* FBDialect.has_sequence
has_sequence(d, sequence_name) ==
    LET name == denormalize_name(sequence_name)
    IN  Outcome("",
                \E g \in rdb.generators : SqlEq(g.generator_name, name.text),
                << Query("has_sequence", << name >>) >>)

\* FBDialect.get_table_names
get_table_names(d) ==
    LET rows == { r \in rdb.relations :
                    /\ r.view_blr = None
                    /\ (r.system_flag = None \/ r.system_flag = Some(0))
                    /\ r.relation_type = Some(0) }
        relation_name(r) == normalize_name(PyStr(SqlTrim(r.relation_name)))
    IN  { Outcome("", MapSeq(relation_name, order), << Query("get_table_names", << >>) >>) :
            order \in AnyOrder(rows) }

\* FBDialect.get_view_definition
get_view_definition(d, view_name) ==
    LET name == denormalize_name(view_name)
        rows == { r \in rdb.relations : SqlEq(r.relation_name, name.text) }
        qry  == << Query("get_view_definition", << name >>) >>
    IN  IF rows = { } THEN { Outcome("", None, qry) }
        ELSE { Outcome("", row.view_source, qry) : row \in rows }

\* FBDialect.get_table_comment
get_table_comment(d, table_name) ==
    LET name == denormalize_name(table_name)
        rows == { r \in rdb.relations : SqlEq(r.relation_name, name.text) }
        qry  == << Query("get_table_comment", << name >>) >>
    IN  IF rows = { } THEN { Outcome("", [text |-> None], qry) }
        ELSE { Outcome("", [text |-> row.description], qry) : row \in rows }

\* the rows of keyqry: constraints of the given type joined to their index
\* segments
keyqry_rows(constraint_type, tablename) ==
    UNION { { << rc, se >> :
                se \in { x \in rdb.index_segments :
                           SqlEq(rc.index_name, x.index_name) } } :
              rc \in { x \in rdb.relation_constraints :
                         /\ x.constraint_type = constraint_type
                         /\ SqlEq(x.relation_name, tablename.text) } }

\* FBDialect.get_pk_constraint
get_pk_constraint(d, table_name) ==
    LET tablename == denormalize_name(table_name)
        fname(j)  == normalize_name(PyStr(SqlTrim(j[2].field_name)))
    IN  { Outcome("",
                  [constrained_columns |-> MapSeq(fname, order), name |-> None],
                  << Query("get_pk_constraint", << "PRIMARY KEY", tablename >>) >>) :
            order \in AnyOrder(keyqry_rows("PRIMARY KEY", tablename)) }

\* the rows of genqry: a trigger of type 1 that depends on the table's
\* field and on a generator, and has exactly two dependencies
genqry_rows(tablename, colname) ==
    UNION { UNION { { << tabdep, trigdep, trig >> :
                        trig \in { x \in rdb.triggers :
                                     /\ SqlEq(x.trigger_name, tabdep.dependent_name)
                                     /\ x.trigger_type = 1 } } :
                      trigdep \in { x \in rdb.dependencies :
                          /\ SqlEq(tabdep.dependent_name, x.dependent_name)
                          /\ x.depended_on_type = 14
                          /\ x.dependent_type = 2
                          /\ Cardinality({ trigdep2 \in rdb.dependencies :
                                             SqlEq(trigdep2.dependent_name,
                                                   x.dependent_name) }) = 2 } } :
              tabdep \in { x \in rdb.dependencies :
                             /\ SqlEq(x.depended_on_name, tablename.text)
                             /\ x.depended_on_type = 0
                             /\ x.field_name # None
                             /\ SqlEq(The(x.field_name), colname.text) } }

\* FBDialect.get_column_sequence
get_column_sequence(d, table_name, column_name) ==
    LET tablename == denormalize_name(table_name)
        colname   == denormalize_name(column_name)
        rows      == genqry_rows(tablename, colname)
        qry       == << Query("get_column_sequence", << tablename, colname >>) >>
    IN  IF rows = { } THEN { Outcome("", None, qry) }
        ELSE { Outcome("",
                       Some([name |-> normalize_name(PyStr(genr[2].depended_on_name))]),
                       qry) : genr \in rows }

\* a reflected type: the class and the arguments it was constructed with
TypeOf(cls, args) == [cls |-> cls, args |-> args]

\* sqltypes.NULLTYPE
NULLTYPE == TypeOf("NullType", << >>)

\* the classes of ischema_names that are subclasses of Integer
IntegerClasses == { "SMALLINT", "INTEGER", "BIGINT" }

\* the rows of tblqry, in every order ORDER BY r.rdb$field_position allows.
\* A row is the relation field r, its field definition f, the type name t
\* and, by the LEFT JOIN, the character set cs or NULL.
tblqry_rows(tablename) ==
    LET joined ==
            UNION { UNION { { << r, f, t >> :
                                t \in { x \in rdb.types :
                                          /\ x.type = f.field_type
                                          /\ x.field_name = "RDB$FIELD_TYPE" } } :
                              f \in { x \in rdb.fields :
                                        /\ SqlEq(r.field_source, x.field_name)
                                        /\ x.system_flag = Some(0) } } :
                      r \in { x \in rdb.relation_fields :
                                SqlEq(x.relation_name, tablename.text) } }
        cs_of(f) == { c \in rdb.character_sets :
                        Some(c.character_set_id) = f.character_set_id }
        rows == UNION { { [r |-> j[1], f |-> j[2], t |-> j[3], cs |-> cs] :
                            cs \in IF cs_of(j[2]) = { } THEN { None }
                                   ELSE { Some(c) : c \in cs_of(j[2]) } } :
                        j \in joined }
        Before(a, b) == a.r.field_position < b.r.field_position
        Select(j) ==
            [ fname     |-> SqlTrim(j.r.field_name),
              null_flag |-> j.r.null_flag,
              ftype     |-> j.t.type_name,
              stype     |-> j.f.field_sub_type,
              flen      |-> j.f.field_length \div
                              (IF j.cs = None THEN 1
                               ELSE The(j.cs).bytes_per_character),
              fprec     |-> j.f.field_precision,
              fscale    |-> j.f.field_scale,
              fdefault  |-> IF j.r.default_source # None
                            THEN j.r.default_source ELSE j.f.default_source,
              computed_source |-> j.f.computed_source ]
    IN  { MapSeq(Select, order) : order \in OrderBy(rows, Before) }

\* get_columns, "get the data type", with the precision test left out: every
\* integer column becomes NUMERIC
column_type_no_precision_test(d, row) ==
    LET colspec == rstrip(row.ftype)
        coltype == DictGet(self_ischema_names(d), colspec)
    IN  IF coltype = None THEN Return(NULLTYPE)
        ELSE IF The(coltype) \in IntegerClasses
        THEN Return(TypeOf("NUMERIC", << row.fprec, Some(The(row.fscale) * (-1)) >>))
        ELSE Return(TypeOf(The(coltype), << >>))

\* get_columns, "get the data type", failing on a type the map does not know
column_type_rejecting_unknown(d, row) ==
    LET colspec == rstrip(row.ftype)
        coltype == DictGet(self_ischema_names(d), colspec)
    IN  IF coltype = None THEN Raise("KeyError")
        ELSE IF The(coltype) \in IntegerClasses /\ row.fprec # Some(0)
        THEN Return(TypeOf("NUMERIC",
                           << row.fprec, Some(The(row.fscale) * (-1)) >>))
        ELSE IF colspec \in { T_VARYING, T_CSTRING }
        THEN Return(TypeOf(The(coltype), << Some(row.flen) >>))
        ELSE Return(TypeOf(The(coltype), << >>))

\* get_columns, "get the data type" (base.py:764-785)
column_type(d, row) ==
    LET colspec == rstrip(row.ftype)
        coltype == DictGet(self_ischema_names(d), colspec)
    IN  IF coltype = None THEN Return(NULLTYPE)
        ELSE IF The(coltype) \in IntegerClasses /\ row.fprec # Some(0)
        THEN IF row.fscale = None THEN Raise("TypeError")
             ELSE Return(TypeOf("NUMERIC",
                                << row.fprec, Some(The(row.fscale) * (-1)) >>))
        ELSE IF colspec \in { T_VARYING, T_CSTRING }
        THEN Return(TypeOf(The(coltype), << Some(row.flen) >>))
        ELSE IF colspec = T_TEXT
        THEN Return(TypeOf("TEXT", << Some(row.flen) >>))
        ELSE IF colspec = T_BLOB
        THEN IF row.stype = Some(1)
             THEN Return(TypeOf("TEXT", << >>))
             ELSE Return(TypeOf("BLOB", << >>))
        ELSE Return(TypeOf(The(coltype), << >>))

KW_DEFAULT == << "D","E","F","A","U","L","T" >>
KW_NULL == << "N","U","L","L" >>

\* get_columns, "does it have a default value?" (base.py:787-801)
column_default(row) ==
    IF row.fdefault = None THEN Return(None)
    ELSE LET defexpr == lstrip(The(row.fdefault))
         IN  IF upper(rstrip(SliceTo(defexpr, 8))) # KW_DEFAULT
             THEN Raise("AssertionError")
             ELSE LET defvalue == strip(SliceFrom(defexpr, 8))
                  IN  IF defvalue = KW_NULL THEN Return(None)
                      ELSE Return(Some(defvalue))

\* the quote mark set for every name that is not all upper case
column_quote_not_upper(orig_colname) ==
    IF upper(orig_colname) # orig_colname THEN Some(TRUE) ELSE None

\* get_columns, the "quote" entry of the column (base.py:810-811)
column_quote(orig_colname) ==
    IF lower(orig_colname) = orig_colname THEN Some(TRUE) ELSE None

\* bool(x) of a nullable integer
PyBool(x) == x # None /\ The(x) # 0

\* the column descriptor built for one row, before any sequence is attached
column_descriptor(row, coltype, defvalue) ==
    [ name          |-> normalize_name(PyStr(row.fname)),
      type          |-> coltype,
      nullable      |-> ~ PyBool(row.null_flag),
      default       |-> defvalue,
      autoincrement |-> "auto",
      quote         |-> column_quote(row.fname),
      computed      |-> IF row.computed_source # None
                        THEN Some([sqltext |-> The(row.computed_source)])
                        ELSE None,
      sequence      |-> None ]

\* the loop of get_columns over the rows from the i-th on
RECURSIVE get_columns_loop(_, _, _, _, _, _, _)
get_columns_loop(d, tablename, pkey_cols, c, i, cols, queries) ==
    IF i > Len(c) THEN { Outcome("", cols, queries) }
    ELSE LET row      == c[i]
             coltype  == column_type(d, row)
             defvalue == column_default(row)
             col_d    == column_descriptor(row, coltype.ret, defvalue.ret)
         IN  IF coltype.raised # ""
             THEN { Outcome(coltype.raised, None, queries) }
             ELSE IF defvalue.raised # ""
             THEN { Outcome(defvalue.raised, None, queries) }
             ELSE IF Len(pkey_cols) = 1 /\ col_d.name.text = pkey_cols[1].text
             THEN UNION { get_columns_loop(
                              d, tablename, pkey_cols, c, i + 1,
                              Append(cols, [col_d EXCEPT !.sequence = seq_d.ret]),
                              queries \o seq_d.queries) :
                            seq_d \in get_column_sequence(d, tablename, col_d.name) }
             ELSE get_columns_loop(d, tablename, pkey_cols, c, i + 1,
                                   Append(cols, col_d), queries)

\* FBDialect.get_columns
get_columns(d, table_name) ==
    LET tablename == denormalize_name(table_name)
    IN  UNION { get_columns_loop(
                    d, tablename, pk.ret.constrained_columns, c, 1, << >>,
                    pk.queries \o << Query("get_columns", << tablename >>) >>) :
                  pk \in get_pk_constraint(d, table_name),
                  c \in tblqry_rows(tablename) }

\* the rows of fkqry, in every order ORDER BY se.rdb$index_name,
\* se.rdb$field_position allows
fkqry_rows(tablename) ==
    LET segments(ix1, ix2) ==
            UNION { { << cse, se >> :
                        se \in { x \in rdb.index_segments :
                                   /\ SqlEq(x.index_name, ix2.index_name)
                                   /\ x.field_position = cse.field_position } } :
                      cse \in { x \in rdb.index_segments :
                                  SqlEq(x.index_name, ix1.index_name) } }
        rows ==
            UNION { UNION { UNION { { << rc, ix1, ix2, s[1], s[2] >> :
                                        s \in segments(ix1, ix2) } :
                                      ix2 \in { x \in rdb.indices :
                                          /\ ix1.foreign_key # None
                                          /\ SqlEq(x.index_name, The(ix1.foreign_key)) } } :
                              ix1 \in { x \in rdb.indices :
                                          SqlEq(x.index_name, rc.index_name) } } :
                      rc \in { x \in rdb.relation_constraints :
                                 /\ x.constraint_type = "FOREIGN KEY"
                                 /\ SqlEq(x.relation_name, tablename.text) } }
        Before(a, b) ==
            \/ NameLess(a[5].index_name, b[5].index_name)
            \/ /\ a[5].index_name = b[5].index_name
               /\ a[5].field_position < b[5].field_position
        Select(j) ==
            [ cname       |-> SqlTrim(j[1].constraint_name),
              fname       |-> SqlTrim(j[4].field_name),
              targetrname |-> SqlTrim(j[3].relation_name),
              targetfname |-> SqlTrim(j[5].field_name) ]
    IN  { MapSeq(Select, order) : order \in OrderBy(rows, Before) }

\* the index in fks of the record kept under the key cname, 0 when there is none
fk_index(fks, cname) ==
    IF \E k \in 1..Len(fks) : fks[k].key = cname.text
    THEN CHOOSE k \in 1..Len(fks) : fks[k].key = cname.text
    ELSE 0

\* one pass of the loop of get_foreign_keys (base.py:858-865): fks is the
\* defaultdict, as the list of its values in insertion order, each with its key
fk_add_row(fks, row) ==
    LET cname == normalize_name(PyStr(row.cname))
        k     == fk_index(fks, cname)
        fresh == [ key |-> cname.text,
                   name |-> None,
                   constrained_columns |-> << >>,
                   referred_schema |-> None,
                   referred_table |-> None,
                   referred_columns |-> << >> ]
        fk    == IF k = 0 THEN fresh ELSE fks[k]
        named == IF fk.name = None \/ The(fk.name).text = << >>
                 THEN [fk EXCEPT
                         !.name = Some(cname),
                         !.referred_table =
                             Some(normalize_name(PyStr(row.targetrname)))]
                 ELSE fk
        added == [named EXCEPT
                    !.constrained_columns =
                        Append(@, normalize_name(PyStr(row.fname))),
                    !.referred_columns =
                        Append(@, normalize_name(PyStr(row.targetfname)))]
    IN  IF k = 0 THEN Append(fks, added) ELSE [fks EXCEPT ![k] = added]

RECURSIVE fk_loop(_, _, _)
fk_loop(c, i, fks) ==
    IF i > Len(c) THEN fks ELSE fk_loop(c, i + 1, fk_add_row(fks, c[i]))

\* FBDialect.get_foreign_keys
get_foreign_keys(d, table_name) ==
    LET tablename == denormalize_name(table_name)
        Value(fk) == [ name |-> fk.name,
                       constrained_columns |-> fk.constrained_columns,
                       referred_schema |-> fk.referred_schema,
                       referred_table |-> fk.referred_table,
                       referred_columns |-> fk.referred_columns ]
    IN  { Outcome("", MapSeq(Value, fk_loop(c, 1, << >>)),
                  << Query("get_foreign_keys", << "FOREIGN KEY", tablename >>) >>) :
            c \in fkqry_rows(tablename) }

\* the rows of the query of get_indexes, in every order ORDER BY index_name,
\* ic.rdb$field_position allows
indexqry_rows(tablename) ==
    LET rows ==
            UNION { { << ix, ic >> :
                        ic \in { x \in rdb.index_segments :
                                   /\ SqlEq(ix.index_name, x.index_name)
                                   /\ ~ \E rc \in rdb.relation_constraints :
                                            SqlEq(rc.index_name, x.index_name) } } :
                      ix \in { x \in rdb.indices :
                                 /\ SqlEq(x.relation_name, tablename.text)
                                 /\ x.foreign_key = None } }
        Before(a, b) ==
            \/ NameLess(SqlTrim(a[1].index_name), SqlTrim(b[1].index_name))
            \/ /\ SqlTrim(a[1].index_name) = SqlTrim(b[1].index_name)
               /\ a[2].field_position < b[2].field_position
        Select(j) ==
            [ index_name  |-> SqlTrim(j[1].index_name),
              unique_flag |-> j[1].unique_flag,
              field_name  |-> SqlTrim(j[2].field_name) ]
    IN  { MapSeq(Select, order) : order \in OrderBy(rows, Before) }

\* one pass of the loop of get_indexes (base.py:889-898)
index_add_row(indexes, row) ==
    LET k == IF \E n \in 1..Len(indexes) : indexes[n].key = row.index_name
             THEN CHOOSE n \in 1..Len(indexes) : indexes[n].key = row.index_name
             ELSE 0
        fresh == [ key |-> row.index_name,
                   name |-> normalize_name(PyStr(row.index_name)),
                   column_names |-> << >>,
                   unique |-> PyBool(row.unique_flag) ]
        indexrec == IF k = 0 THEN fresh ELSE indexes[k]
        added == [indexrec EXCEPT
                    !.column_names =
                        Append(@, normalize_name(PyStr(row.field_name)))]
    IN  IF k = 0 THEN Append(indexes, added) ELSE [indexes EXCEPT ![k] = added]

RECURSIVE index_loop(_, _, _)
index_loop(c, i, indexes) ==
    IF i > Len(c) THEN indexes
    ELSE index_loop(c, i + 1, index_add_row(indexes, c[i]))

\* FBDialect.get_indexes
get_indexes(d, table_name) ==
    LET tablename == denormalize_name(table_name)
        Value(rec) == [ name |-> rec.name,
                        column_names |-> rec.column_names,
                        unique |-> rec.unique ]
    IN  { Outcome("", MapSeq(Value, index_loop(c, 1, << >>)),
                  << Query("get_indexes", << tablename >>) >>) :
            c \in indexqry_rows(tablename) }

-----------------------------------------------------------------------------
(* Servers, and the state of the dialects after construction *)

\* what a connection reports: the server_version_info tuple (major, minor,
\* build, product) and the driver's engine_version, in tenths
Server(info, engine_version_x10) ==
    [ server_version_info |-> info, engine_version_x10 |-> engine_version_x10 ]

SampleServers ==
    { Server(<< 1, 5, 6, "firebird" >>, 15),
      Server(<< 4, 0, 2, "firebird" >>, 40) }

\* The state after construction of the dialects: no instance attribute is
\* set but implicit_returning, when the constructor was given one; the class
\* attributes are the module-level tables and _version_two = True.
InitWith(servers, dbs, implicit_returning_args) ==
    /\ ischema_names = static_ischema_names
    /\ colspecs = static_colspecs
    /\ server \in [Dialects -> servers]
    /\ db \in dbs
    /\ initialized = [d \in Dialects |-> FALSE]
    /\ server_version_info = [d \in Dialects |-> None]
    /\ version_two = [d \in Dialects |-> TRUE]
    /\ inst_ischema_names = [d \in Dialects |-> None]
    /\ inst_colspecs = [d \in Dialects |-> None]
    /\ implicit_returning \in [Dialects -> implicit_returning_args]
    /\ max_identifier_length = [d \in Dialects |-> DefaultMaxIdentifierLength]
    /\ pc = [d \in Dialects |-> "idle"]
    /\ last = [op |-> "none"]

\* a call of a method of dialect d (or of a compiler of d) that only reads
\* the dialect
Call(op, d, args, outcome) ==
    /\ last' = [ op |-> op, d |-> d, args |-> args, raised |-> outcome.raised,
                 ret |-> outcome.ret, queries |-> outcome.queries ]
    /\ UNCHANGED << capability, statics, environment, initialized,
                    server_version_info, pc >>

-----------------------------------------------------------------------------
(* The rendering calls *)

Selects ==
    [ distinct : BOOLEAN,
      limit_clause : { None, Some(0), Some(10) },
      offset_clause : { None, Some(5) } ]

GetSelectPrecolumns(d) ==
    \E select \in Selects :
        Call("get_select_precolumns", d, << select >>,
             Outcome("", get_select_precolumns(select), << >>))

LimitClause(d) ==
    \E select \in Selects :
        Call("limit_clause", d, << select >>,
             Outcome("", limit_clause(select), << >>))

Aliases ==
    { [ element |-> "emp", name |-> PyStr(<< "e","1" >>) ],
      [ element |-> "emp", name |-> PyStr(<< "S","e","l","e","c","t" >>) ] }

VisitAlias(d) ==
    \E alias \in Aliases, asfrom \in BOOLEAN :
        Call("visit_alias", d, << alias, asfrom >>,
             Outcome("", visit_alias(d, alias, asfrom), << >>))

Sequences_ ==
    [ name : { PyStr(<< "g","e","n","_","e","m","p" >>) },
      start : { None, Some(0), Some(1) },
      increment : { None, Some(1) } ]

VisitCreateSequence(d) ==
    \E seq \in Sequences_ :
        LET r == visit_create_sequence(d, seq)
        IN  Call("visit_create_sequence", d, << seq >>,
                 Outcome(r.raised, r.ret, << >>))

VisitDropSequence(d) ==
    \E seq \in Sequences_ :
        LET r == visit_drop_sequence(d, seq)
        IN  Call("visit_drop_sequence", d, << seq >>,
                 Outcome(r.raised, r.ret, << >>))

Computeds ==
    [ sqltext : { "a + b" }, persisted : { None, Some(TRUE), Some(FALSE) } ]

VisitComputedColumn(d) ==
    \E generated \in Computeds :
        LET r == visit_computed_column(generated)
        IN  Call("visit_computed_column", d, << generated >>,
                 Outcome(r.raised, r.ret, << >>))

\* a type to render: its class, and for a string type its length and charset
TypeExpr(cls, length, charset) ==
    [ cls |-> cls, length |-> length, charset |-> charset ]

StringTypes ==
    { TypeExpr(cls, length, charset) :
        cls \in { "VARCHAR", "CHAR" },
        length \in { None, Some(0), Some(20) },
        charset \in { None, Some("UTF8") } }

OtherTypes ==
    { TypeExpr(cls, None, None) :
        cls \in { "Boolean", "DateTime", "TEXT", "BLOB", "INTEGER" } }

VisitVARCHAR(d) ==
    \E type_ \in { t \in StringTypes : t.cls = "VARCHAR" } :
        LET r == visit_VARCHAR(type_)
        IN  Call("visit_VARCHAR", d, << type_ >>, Outcome(r.raised, r.ret, << >>))

TypeCompilerProcess(d) ==
    \E type_ \in StringTypes \cup OtherTypes :
        LET r == type_compiler_process(type_)
        IN  Call("type_compiler_process", d, << type_ >>,
                 Outcome(r.raised, r.ret, << >>))

\* a column to render
Column(name, type, computed, is_autoincrement_column, autoincrement,
       server_default, nullable, primary_key) ==
    [ name |-> name, type |-> type, computed |-> computed,
      is_autoincrement_column |-> is_autoincrement_column,
      autoincrement |-> autoincrement, identity_start |-> 0,
      server_default |-> server_default, nullable |-> nullable,
      primary_key |-> primary_key, default_is_sequence |-> FALSE ]

Columns ==
    { Column(PyStr(<< "i","d" >>), TypeExpr("INTEGER", None, None), None,
             TRUE, "auto", None, Some(FALSE), TRUE),
      Column(PyStr(<< "n","a","m","e" >>), TypeExpr("VARCHAR", Some(20), None), None,
             FALSE, "auto", Some("'x'"), Some(TRUE), FALSE),
      Column(PyStr(<< "n","o","t","e" >>), TypeExpr("VARCHAR", None, None), None,
             FALSE, "auto", None, Some(TRUE), FALSE),
      Column(PyStr(<< "t","o","t","a","l" >>), TypeExpr("INTEGER", None, None),
             Some([ sqltext |-> "a + b", persisted |-> None ]),
             FALSE, "auto", None, Some(TRUE), FALSE),
      Column(PyStr(<< "s","t","o","r","e","d" >>), TypeExpr("INTEGER", None, None),
             Some([ sqltext |-> "a + b", persisted |-> Some(TRUE) ]),
             FALSE, "auto", None, Some(TRUE), FALSE),
      Column(PyStr(<< "n" >>), TypeExpr("INTEGER", None, None), None,
             FALSE, "True", None, None, FALSE) }

GetColumnSpecification(d) ==
    \E column \in Columns :
        LET r == get_column_specification(column)
        IN  Call("get_column_specification", d, << column >>,
                 Outcome(r.raised, r.ret, << >>))

-----------------------------------------------------------------------------
(* The reflection calls, made on a connection of an initialized dialect *)

\* a name one character longer than n
LongName(n) == PyStr(Repeat("x", n + 1))

\* the names the calls are made with
TableNames ==
    { PyStr(<< "e","m","p" >>), PyStr(<< "v","_","e","m","p" >>),
      PyStr(<< "n","o","s","u","c","h" >>), QuotedName(<< "e","m","p" >>),
      PyStr(Repeat("x", LegacyMaxIdentifierLength)),
      LongName(LegacyMaxIdentifierLength),
      PyStr(Repeat("x", ModernMaxIdentifierLength)),
      LongName(ModernMaxIdentifierLength) }

ShortTableNames == { t \in TableNames : Len(t.text) <= RdbNameWidth }

SequenceNames == { PyStr(<< "g","e","n","_","e","m","p" >>), PyStr(<< "n","o","s","u","c","h" >>) }

ColumnNames == { PyStr(<< "i","d" >>), PyStr(<< "n","a","m","e" >>) }

HasTable(d) ==
    /\ initialized[d]
    /\ \E table_name \in TableNames :
          Call("has_table", d, << table_name >>, has_table(d, table_name))

HasSequence(d) ==
    /\ initialized[d]
    /\ \E sequence_name \in SequenceNames :
          Call("has_sequence", d, << sequence_name >>,
               has_sequence(d, sequence_name))

GetTableNames(d) ==
    /\ initialized[d]
    /\ \E outcome \in get_table_names(d) :
          Call("get_table_names", d, << >>, outcome)

GetViewDefinition(d) ==
    /\ initialized[d]
    /\ \E view_name \in ShortTableNames :
          \E outcome \in get_view_definition(d, view_name) :
              Call("get_view_definition", d, << view_name >>, outcome)

GetTableComment(d) ==
    /\ initialized[d]
    /\ \E table_name \in ShortTableNames :
          \E outcome \in get_table_comment(d, table_name) :
              Call("get_table_comment", d, << table_name >>, outcome)

GetPkConstraint(d) ==
    /\ initialized[d]
    /\ \E table_name \in ShortTableNames :
          \E outcome \in get_pk_constraint(d, table_name) :
              Call("get_pk_constraint", d, << table_name >>, outcome)

GetColumnSequence(d) ==
    /\ initialized[d]
    /\ \E table_name \in ShortTableNames, column_name \in ColumnNames :
          \E outcome \in get_column_sequence(d, table_name, column_name) :
              Call("get_column_sequence", d, << table_name, column_name >>,
                   outcome)

\* get_columns keeping the fallback of an unrecognized type in the type map
\* of the dialect
GetColumnsRegisteringUnknownTypes(d) ==
    /\ initialized[d]
    /\ \E table_name \in ShortTableNames :
          \E outcome \in get_columns(d, table_name) :
              /\ last' = [ op |-> "get_columns", d |-> d,
                           args |-> << table_name >>,
                           raised |-> outcome.raised, ret |-> outcome.ret,
                           queries |-> outcome.queries ]
              /\ inst_ischema_names' =
                   [inst_ischema_names EXCEPT
                      ![d] = IF /\ outcome.raised = ""
                                /\ \E i \in 1..Len(outcome.ret) :
                                       outcome.ret[i].type = NULLTYPE
                             THEN Some((<< "?" >> :> "NullType") @@ self_ischema_names(d))
                             ELSE @]
              /\ UNCHANGED << version_two, inst_colspecs, implicit_returning,
                              max_identifier_length, statics, environment,
                              initialized, server_version_info, pc >>

GetColumns(d) ==
    /\ initialized[d]
    /\ \E table_name \in ShortTableNames :
          \E outcome \in get_columns(d, table_name) :
              Call("get_columns", d, << table_name >>, outcome)

GetForeignKeys(d) ==
    /\ initialized[d]
    /\ \E table_name \in ShortTableNames :
          \E outcome \in get_foreign_keys(d, table_name) :
              Call("get_foreign_keys", d, << table_name >>, outcome)

GetIndexes(d) ==
    /\ initialized[d]
    /\ \E table_name \in ShortTableNames :
          \E outcome \in get_indexes(d, table_name) :
              Call("get_indexes", d, << table_name >>, outcome)

-----------------------------------------------------------------------------
(* The dialects at work: initialization, rendering and reflection against  *)
(* the sample database                                                     *)

Init == InitWith(SampleServers, { [kind |-> "sample"] }, { None })

Next ==
    \E d \in Dialects :
        \/ initialize(d)
        \/ GetSelectPrecolumns(d)
        \/ LimitClause(d)
        \/ VisitAlias(d)
        \/ VisitCreateSequence(d)
        \/ VisitDropSequence(d)
        \/ VisitComputedColumn(d)
        \/ VisitVARCHAR(d)
        \/ TypeCompilerProcess(d)
        \/ GetColumnSpecification(d)
        \/ HasTable(d)
        \/ HasSequence(d)
        \/ GetTableNames(d)
        \/ GetViewDefinition(d)
        \/ GetTableComment(d)
        \/ GetPkConstraint(d)
        \/ GetColumnSequence(d)
        \/ GetColumns(d)
        \/ GetForeignKeys(d)
        \/ GetIndexes(d)

Spec == Init /\ [][Next]_vars

-----------------------------------------------------------------------------
(* Initialization against every kind of server *)

ServerVersionInfos ==
    { << 1, 5, 6, "firebird" >>, << 2, 0, 0, "firebird" >>,
      << 3, 0, 4, "firebird" >>, << 5, 6, 0, "interbase" >>,
      << 6, 0, 0, "interbase" >>, << 7, 1, 0, "interbase" >>,
      << 9, 0, 0, "yaffil" >> }

EngineVersions == { 25, 39, 40 }

AllServers ==
    { Server(info, engine) : info \in ServerVersionInfos, engine \in EngineVersions }

InitAnyServer ==
    InitWith(AllServers, { [kind |-> "sample"] }, { None, Some(TRUE), Some(FALSE) })

NextInit == \E d \in Dialects : initialize(d)

SpecInit == InitAnyServer /\ [][NextInit]_vars

\* the product name and the major version a server reported
ProductOf(info) == info[Len(info)]
MajorOf(info) == info[1]

\* C1: after initialize a dialect is in the Modern generation exactly when
\* the server reported the product firebird with a major version of at
\* least 2, or the product interbase with a major version of at least 6;
\* for every other product and version it is in the Legacy generation.
C1_GenerationFollowsServer ==
    \A d \in Dialects :
        initialized[d] =>
            LET info == The(server_version_info[d])
            IN  version_two[d] <=>
                    \/ ProductOf(info) = "firebird" /\ MajorOf(info) >= 2
                    \/ ProductOf(info) = "interbase" /\ MajorOf(info) >= 6

\* one dialect initialized Modern at the lowest firebird version that is
\* Modern, another initialized Legacy on an interbase server
C1_Witness ==
    \E d, e \in Dialects :
        /\ initialized[d] /\ version_two[d]
        /\ The(server_version_info[d]) = << 2, 0, 0, "firebird" >>
        /\ initialized[e] /\ ~ version_two[e]
        /\ ProductOf(The(server_version_info[e])) = "interbase"

-----------------------------------------------------------------------------
(* Properties of the dialects at work *)

\* the rendering and reflection calls of the model
RenderingCalls ==
    { "get_select_precolumns", "limit_clause", "visit_alias",
      "visit_create_sequence", "visit_drop_sequence", "visit_computed_column",
      "visit_VARCHAR", "type_compiler_process", "get_column_specification" }

ReflectionCalls ==
    { "has_table", "has_sequence", "get_table_names", "get_columns",
      "get_pk_constraint", "get_column_sequence", "get_foreign_keys",
      "get_indexes", "get_table_comment", "get_view_definition" }

\* C2: once initialize has run on a dialect, a step that is a rendering or a
\* reflection call leaves its capability state as it was: the generation
\* flag, the maximum identifier length, the implicit-RETURNING flag, and the
\* type map and column specifications the dialect reads.
C2_CapabilityFrozen ==
    [][ last'.op \in RenderingCalls \cup ReflectionCalls =>
          \A d \in Dialects :
              initialized[d] =>
                  /\ version_two'[d] = version_two[d]
                  /\ max_identifier_length'[d] = max_identifier_length[d]
                  /\ implicit_returning'[d] = implicit_returning[d]
                  /\ self_ischema_names(d)' = self_ischema_names(d)
                  /\ self_colspecs(d)' = self_colspecs(d) ]_vars

\* a Legacy dialect, holding its own type map, has reflected a table with a
\* column of a type the map does not know, after a rendering call was made
C2_Witness ==
    /\ last.op = "get_columns"
    /\ initialized[last.d] /\ ~ version_two[last.d]
    /\ inst_ischema_names[last.d] # None
    /\ last.raised = ""
    /\ \E i \in 1..Len(last.ret) : last.ret[i].type = NULLTYPE

-----------------------------------------------------------------------------
(* Reflection of single columns: the dialects reflect a table EMP whose one *)
(* column is of every type, precision and scale, carries every kind of      *)
(* default source, or bears every kind of name.                             *)

ColumnProbe(fname, ftype, fprec, fscale, fdefault) ==
    [ kind |-> "column", fname |-> fname, ftype |-> ftype, fprec |-> fprec,
      fscale |-> fscale, fdefault |-> fdefault ]

\* SHORT, LONG and INT64, and the static type of each (base.py:215-229)
IntegerTypeCodes == { 7, 8, 16 }

PlainIntegerOf(code) ==
    CASE code = 7 -> "SMALLINT" [] code = 8 -> "INTEGER" [] code = 16 -> "BIGINT"

\* columns of every field type, with no precision, precision 0, 5 and 18
TypeProbes ==
    { ColumnProbe(<< "C" >>, ftype, fprec, fscale, None) :
        ftype \in IntegerTypeCodes \cup { 9, 10, 27, 12, 14, 37, 23, 261 },
        fprec \in { None, Some(0), Some(5), Some(18) },
        fscale \in { Some(0), Some(-2) } }

\* the texts joined: { a \o b : a \in A, b \in B }
Join(A, B) == { a \o b : a \in A, b \in B }

\* default sources: blanks, a head, blanks, a value, blanks
DefaultTexts ==
    Join({ << >>, << " " >> },
    Join({ << "D","E","F","A","U","L","T" >>, << "d","e","f","a","u","l","t" >>, << "D","e","f","a","u","l","t" >>, << "D","E","F","A","U","L" >>, << "D","E","F","A","U","L","T","S" >>,
           << >>, << "=" >> },
    Join({ << >>, << " " >>, << " ", " " >> },
    Join({ << >>, << "1" >>, << "-","1" >>, << "'","a","'" >>, << "N","U","L","L" >>, << "n","u","l","l" >>, << "N","U","L","L","S" >>,
           << "'","a"," ","b","'" >>, << "(","1",")" >> },
         { << >>, << " " >> }))))

DefaultProbes ==
    { ColumnProbe(<< "C" >>, 8, Some(0), Some(0), Some(text)) : text \in DefaultTexts }

\* column names in upper, lower and mixed case and without any letter
CatalogColumnNames ==
    { << "I","D" >>, << "i","d" >>, << "I","d" >>, << "i","D" >>, << "M","Y","_","C","O","L" >>, << "m","y","_","c","o","l" >>, << "M","y","_","C","o","l" >>,
      << "A","1" >>, << "a","1" >>, << "_","1" >>, << "$" >>, << "S","E","L","E","C","T" >>, << "s","e","l","e","c","t" >>, << "S","e","l","e","c","t" >> }

NameProbes ==
    { ColumnProbe(fname, 8, Some(0), Some(0), None) : fname \in CatalogColumnNames }

InitColumns ==
    InitWith(SampleServers, TypeProbes \cup DefaultProbes \cup NameProbes, { None })

NextColumns == \E d \in Dialects : initialize(d) \/ GetColumns(d)

SpecColumns == InitColumns /\ [][NextColumns]_vars

EmpName == PyStr(<< "e","m","p" >>)

\* the last call reflected the columns of EMP
ReflectedEmp ==
    /\ db.kind = "column"
    /\ last.op = "get_columns"
    /\ last.args = << EmpName >>

WordCharacters == UpperSet \cup LowerSet \cup Digits \cup { "_", "$" }

\* the text, leading blanks aside, begins with the keyword DEFAULT in any
\* letter case: the word ends after its seven letters
BeginsWithDefault(text) ==
    LET d == lstrip(text)
    IN  /\ Len(d) >= 7
        /\ upper(SliceTo(d, 7)) = KW_DEFAULT
        /\ Len(d) > 7 => d[8] \notin WordCharacters

\* C4: for every default source of the reflected column, if the text begins
\* with the keyword DEFAULT, in any letter case and after any leading
\* blanks, get_columns returns and reports as the default the text after the
\* keyword with the blanks around it stripped, or no default when that text
\* is exactly NULL; if the text does not begin with DEFAULT, get_columns
\* raises AssertionError and returns no column list.
C4_DefaultSourceParsed ==
    ReflectedEmp /\ db.fdefault # None =>
        LET d    == lstrip(The(db.fdefault))
            rest == strip(SliceFrom(d, 7))
        IN  IF BeginsWithDefault(The(db.fdefault))
            THEN /\ last.raised = ""
                 /\ Len(last.ret) = 1
                 /\ last.ret[1].default = IF rest = KW_NULL THEN None ELSE Some(rest)
            ELSE /\ last.raised = "AssertionError"
                 /\ last.ret = None

\* the default source DEFAULT'a' was met and get_columns raised AssertionError
C4_Witness ==
    /\ ReflectedEmp
    /\ db.fdefault = Some(<< "D","E","F","A","U","L","T","'","a","'" >>)
    /\ last.raised = "AssertionError"
    /\ last.ret = None

\* the text holds an upper-case letter
HasUpperCase(text) == \E i \in 1..Len(text) : text[i] \in UpperSet

\* C5 as the code has it: get_columns marks a column for quoting
\* (quote = True) exactly when its catalog name holds no upper-case letter;
\* a name in mixed case is not marked, nor is one all in upper case.
C5_QuoteIffNoUpperCase ==
    ReflectedEmp /\ db.fdefault = None =>
        /\ last.raised = ""
        /\ Len(last.ret) = 1
        /\ last.ret[1].quote = IF HasUpperCase(db.fname) THEN None ELSE Some(TRUE)

\* C5 as stated: get_columns marks a column for quoting for every catalog
\* name that is not all upper case, mixed case included, and does not mark a
\* name that is all upper case.
C5_QuoteIffNotAllUpperCase ==
    ReflectedEmp /\ db.fdefault = None =>
        /\ last.raised = ""
        /\ Len(last.ret) = 1
        /\ last.ret[1].quote = IF upper(db.fname) # db.fname THEN Some(TRUE) ELSE None

\* the column Id has been reflected and left unmarked
C5_Witness ==
    /\ ReflectedEmp
    /\ last.raised = ""
    /\ db.fname = << "I","d" >>
    /\ last.ret[1].quote = None

-----------------------------------------------------------------------------
(* Names between the catalog and the program: the dialects normalize every  *)
(* short identifier a catalog can hold and denormalize what they got.       *)

MaxIdentLen == 3

\* letters that spell a reserved word (AS) and others, an underscore, a
\* digit, and one lower-case letter
IdentAlphabet == { "A", "S", "_", "1", "a" }

Identifiers == UNION { [1..n -> IdentAlphabet] : n \in 1..MaxIdentLen }

NormalizeName(d) ==
    \E x \in Identifiers :
        Call("normalize_name", d, << PyStr(x) >>,
             Outcome("", normalize_name(PyStr(x)), << >>))

DenormalizeName(d) ==
    /\ last.op = "normalize_name"
    /\ last.d = d
    /\ Call("denormalize_name", d, << last.ret >>,
            Outcome("", denormalize_name(last.ret), << >>))

NextIdent == \E d \in Dialects : NormalizeName(d) \/ DenormalizeName(d)

InitIdent == InitWith({ Server(<< 4, 0, 2, "firebird" >>, 40) }, { [kind |-> "sample"] }, { None })

SpecIdent == InitIdent /\ [][NextIdent]_vars

\* the text is made of upper-case letters, digits and underscores only
UpperCaseIdentifier(x) ==
    \A i \in 1..Len(x) : x[i] \in UpperSet \cup Digits \cup { "_" }

\* the last call normalized an identifier of upper-case letters, digits and
\* underscores
NormalizedUpperCase ==
    /\ last.op = "normalize_name"
    /\ UpperCaseIdentifier(last.args[1].text)

\* C6 as the code has it: for every identifier x of upper-case letters,
\* digits and underscores, denormalize(normalize(x)) = x, and
\* normalize(x) requires quoting exactly when x is a reserved word, letter
\* case aside, or starts with an underscore or a digit.
C6_RoundTripAndQuoting ==
    NormalizedUpperCase =>
        LET x == last.args[1].text
        IN  /\ denormalize_name(last.ret).text = x
            /\ requires_quotes(last.ret) <=>
                  \/ lower(x) \in RESERVED_WORDS
                  \/ x[1] \in Digits \cup { "_" }

\* C6 as stated: for every identifier x of upper-case letters, digits and
\* underscores, one starting with an underscore or a digit included,
\* denormalize(normalize(x)) = x and normalize(x) does not require quoting
\* unless x is a reserved word, letter case aside.
C6_RoundTripAndNoQuoting ==
    NormalizedUpperCase =>
        LET x == last.args[1].text
        IN  /\ denormalize_name(last.ret).text = x
            /\ requires_quotes(last.ret) => lower(x) \in RESERVED_WORDS

\* the name _A has been normalized: it was kept, and it requires quotes
C6_Witness ==
    /\ NormalizedUpperCase
    /\ last.args[1].text = << "_","A" >>
    /\ last.ret = PyStr(<< "_","A" >>)
    /\ requires_quotes(last.ret)
    /\ denormalize_name(last.ret) = PyStr(<< "_","A" >>)

-----------------------------------------------------------------------------
(* Properties of single calls of the dialects at work *)

\* the names the relation catalog holds
RelationNames == { SqlRTrim(r.relation_name) : r \in rdb.relations }

\* C7: has_table returns False and sends no query when the table name is
\* longer than the dialect's maximum identifier length; otherwise it sends
\* one query, with the denormalized name as its parameter, and returns True
\* exactly when the relation catalog holds a row of that name.
C7_HasTableWithinLength ==
    last.op = "has_table" =>
        LET table_name == last.args[1]
        IN  /\ last.raised = ""
            /\ IF Len(table_name.text) > max_identifier_length[last.d]
               THEN /\ last.ret = FALSE
                    /\ last.queries = << >>
               ELSE /\ Len(last.queries) = 1
                    /\ last.queries[1].params = << denormalize_name(table_name) >>
                    /\ last.ret <=>
                          denormalize_name(table_name).text \in RelationNames

\* a dialect with the maximum of 31 has refused a name of 32 characters
\* without a query
C7_Witness ==
    /\ last.op = "has_table"
    /\ Len(last.args[1].text) = LegacyMaxIdentifierLength + 1
    /\ max_identifier_length[last.d] = LegacyMaxIdentifierLength
    /\ last.ret = FALSE
    /\ last.queries = << >>

\* C8: in both generations, visit_create_sequence raises when the sequence
\* has a start value or an increment and renders CREATE SEQUENCE or CREATE
\* GENERATOR only when it has neither; visit_computed_column raises when a
\* persistence mode is set; visit_VARCHAR raises when the type has no
\* length.  What raises yields no SQL text.
C8_UnsupportedConstructsRaise ==
    /\ last.op = "visit_create_sequence" =>
          LET seq == last.args[1]
          IN  IF seq.start # None \/ seq.increment # None
              THEN last.raised # "" /\ last.ret = None
              ELSE /\ last.raised = ""
                   /\ last.ret[1] = IF version_two[last.d]
                                    THEN "CREATE SEQUENCE "
                                    ELSE "CREATE GENERATOR "
    /\ last.op = "visit_computed_column" =>
          (last.args[1].persisted # None => last.raised # "" /\ last.ret = None)
    /\ last.op = "visit_VARCHAR" =>
          (last.args[1].length = None => last.raised # "" /\ last.ret = None)

\* a Legacy dialect has refused a sequence with an increment and no start
C8_Witness ==
    /\ last.op = "visit_create_sequence"
    /\ initialized[last.d] /\ ~ version_two[last.d]
    /\ last.args[1].start = None /\ last.args[1].increment # None
    /\ last.raised = "NotImplementedError"

\* the fragments sub occur in text, one after the other
Contains(text, sub) ==
    \E i \in 0..(Len(text) - Len(sub)) : SubSeq(text, i + 1, i + Len(sub)) = sub

\* C9: whatever limit and offset a SELECT has, the text rendered before the
\* column list contains FIRST (<limit>) exactly when a limit is present and
\* SKIP (<offset>) exactly when an offset is present, each expression in
\* parentheses, FIRST before SKIP when both are present; and limit_clause
\* renders the empty string.
C9_FirstSkipBeforeColumns ==
    /\ last.op = "get_select_precolumns" =>
          LET select == last.args[1]
              text   == last.ret
              First  == { i \in 1..Len(text) : text[i] = "FIRST (" }
              Skip   == { i \in 1..Len(text) : text[i] = "SKIP (" }
          IN  /\ last.raised = ""
              /\ IF select.limit_clause # None
                 THEN Contains(text, << "FIRST (",
                                        ToString(The(select.limit_clause)), ") " >>)
                 ELSE First = { }
              /\ IF select.offset_clause # None
                 THEN Contains(text, << "SKIP (",
                                        ToString(The(select.offset_clause)), ") " >>)
                 ELSE Skip = { }
              /\ \A i \in First, j \in Skip : i < j
    /\ last.op = "limit_clause" => last.raised = "" /\ Str(last.ret) = ""

\* a SELECT with limit 10 and offset 5 was rendered with FIRST (10) SKIP (5)
C9_Witness ==
    /\ last.op = "get_select_precolumns"
    /\ last.args[1].limit_clause = Some(10)
    /\ last.args[1].offset_clause = Some(5)
    /\ ~ last.args[1].distinct
    /\ Str(last.ret) = "FIRST (10) SKIP (5) "

-----------------------------------------------------------------------------
(* Reflection of foreign keys: the dialects reflect a table EMP that has    *)
(* any of five foreign keys to the tables DEPT and PROJ.                    *)

ForeignKey(name, columns, target) ==
    [ name |-> name, columns |-> columns, target |-> target ]

\* two keys of two columns to DEPT and two of one column to PROJ, and a key
\* whose name, fk_a, was declared in quotes
ForeignKeys ==
    { ForeignKey(<< "F","K","_","D" >>, << << "B" >>, << "A" >> >>, << "P","K","_","D","E","P","T" >>),
      ForeignKey(<< "F","K","_","E" >>, << << "C" >>, << "D" >> >>, << "P","K","_","D","E","P","T" >>),
      ForeignKey(<< "F","K","_","P" >>, << << "C" >> >>, << "P","K","_","P","R","O","J" >>),
      ForeignKey(<< "F","K","_","A" >>, << << "D" >> >>, << "P","K","_","P","R","O","J" >>),
      ForeignKey(<< "f","k","_","a" >>, << << "A" >>, << "B" >> >>, << "P","K","_","D","E","P","T" >>) }

\* the most foreign keys EMP has
MaxForeignKeys == 3

FkProbes ==
    { [ kind |-> "fk", fks |-> fks ] :
        fks \in { F \in SUBSET ForeignKeys : Cardinality(F) <= MaxForeignKeys } }

InitForeignKeys == InitWith(SampleServers, FkProbes, { None })

NextForeignKeys == \E d \in Dialects : initialize(d) \/ GetForeignKeys(d)

SpecForeignKeys == InitForeignKeys /\ [][NextForeignKeys]_vars

\* the last call reflected the foreign keys of EMP
ReflectedForeignKeys ==
    /\ db.kind = "fk"
    /\ last.op = "get_foreign_keys"
    /\ last.args = << EmpName >>

\* the record fk describes the foreign key f: it bears its name, its column
\* lists are as long as the key, the i-th constrained column is the key's
\* i-th column and the i-th referred column the i-th column of the
\* referenced index, and the referred table is the table of that index
DescribesForeignKey(fk, f) ==
    /\ fk.name # None
    /\ The(fk.name).text = normalize_name(PyStr(f.name)).text
    /\ Len(fk.constrained_columns) = Len(f.columns)
    /\ Len(fk.referred_columns) = Len(f.columns)
    /\ \A i \in 1..Len(f.columns) :
          /\ fk.constrained_columns[i].text = lower(f.columns[i])
          /\ fk.referred_columns[i].text = lower(TargetColumns(f.target)[i])
    /\ fk.referred_table # None
    /\ The(fk.referred_table).text = lower(TargetTable(f.target))

\* C10: get_foreign_keys returns exactly one record per foreign-key
\* constraint name of the table; in every record the two column lists are
\* of one length, the i-th constrained column references the i-th referred
\* column, both lists are in field-position order, and the referred table
\* is the table of the constraint's referenced index.
C10_OneRecordPerForeignKey ==
    ReflectedForeignKeys =>
        /\ last.raised = ""
        /\ Len(last.ret) = Cardinality(db.fks)
        /\ \A f \in db.fks :
              \E i \in 1..Len(last.ret) : DescribesForeignKey(last.ret[i], f)

\* the foreign keys FK_A and "fk_a" of EMP were reflected as one record
C10_Witness ==
    /\ ReflectedForeignKeys
    /\ { f.name : f \in db.fks } = { << "F","K","_","A" >>, << "f","k","_","a" >> }
    /\ last.raised = ""
    /\ Len(last.ret) = 1

-----------------------------------------------------------------------------
(* Reflection of primary keys: the dialects reflect a table EMP whose       *)
(* primary key has no, one, two or three columns.                           *)

\* the primary keys of EMP: the columns in position order
PrimaryKeys ==
    { << >>, << << "I","D" >> >>, << << "A" >>, << "B" >> >>, << << "B" >>, << "A" >> >>,
      << << "C" >>, << "A" >>, << "B" >> >> }

PkProbes == { [ kind |-> "pk", columns |-> columns ] : columns \in PrimaryKeys }

InitPrimaryKeys == InitWith(SampleServers, PkProbes, { None })

NextPrimaryKeys == \E d \in Dialects : initialize(d) \/ GetPkConstraint(d)

SpecPrimaryKeys == InitPrimaryKeys /\ [][NextPrimaryKeys]_vars

\* the last call reflected the primary key of EMP
ReflectedPrimaryKey ==
    /\ db.kind = "pk"
    /\ last.op = "get_pk_constraint"
    /\ last.args = << EmpName >>

\* C11: get_pk_constraint returns the columns of the primary key as a list
\* in the field-position order of the key's index, for keys of one and of
\* several columns, and reports the constraint's name as None.
C11_PrimaryKeyInPositionOrder ==
    ReflectedPrimaryKey =>
        /\ last.raised = ""
        /\ last.ret.name = None
        /\ Len(last.ret.constrained_columns) = Len(db.columns)
        /\ \A k \in 1..Len(db.columns) :
              last.ret.constrained_columns[k].text = lower(db.columns[k])

\* the key (A, B) of EMP was reflected as the list b, a
C11_Witness ==
    /\ ReflectedPrimaryKey
    /\ db.columns = << << "A" >>, << "B" >> >>
    /\ last.raised = ""
    /\ last.ret.name = None
    /\ Len(last.ret.constrained_columns) = 2
    /\ last.ret.constrained_columns[1].text = << "b" >>
    /\ last.ret.constrained_columns[2].text = << "a" >>

-----------------------------------------------------------------------------
(* Reflection of whole tables: the dialects reflect a table EMP with the    *)
(* primary key ID, with further columns of known and unknown types, and     *)
(* with triggers that feed ID from generators.                              *)

\* the most columns EMP has after ID
MaxColumns == 2

\* LONG, VARYING and TIMESTAMP, and BOOLEAN, which no type map knows
ProbedTypeCodes == { 8, 37, 35, 23 }

ColumnTypeLists == UNION { [1..n -> ProbedTypeCodes] : n \in 0..MaxColumns }

SequenceTrigger(name, generator) == [ name |-> name, generator |-> generator ]

\* two triggers with generators of their own and one that shares GEN_A
SequenceTriggers ==
    { SequenceTrigger(<< "T","R","_","A" >>, << "G","E","N","_","A" >>),
      SequenceTrigger(<< "T","R","_","B" >>, << "G","E","N","_","B" >>),
      SequenceTrigger(<< "T","R","_","C" >>, << "G","E","N","_","A" >>) }

TableProbes ==
    { [ kind |-> "table", types |-> types, triggers |-> { } ] :
        types \in ColumnTypeLists }
    \cup { [ kind |-> "table", types |-> << >>, triggers |-> triggers ] :
             triggers \in SUBSET SequenceTriggers }

\* get_columns called twice in succession on the table emp
GetColumnsTwice(d) ==
    /\ initialized[d]
    /\ \E first \in get_columns(d, EmpName) :
          \E second \in get_columns(d, EmpName) :
              Call("get_columns_twice", d, << EmpName >>,
                   Outcome(IF first.raised # "" THEN first.raised ELSE second.raised,
                           << first.ret, second.ret >>,
                           first.queries \o second.queries))

\* the dialect d1 connects to a Firebird 1.5 server, d2 to a Firebird 4.0 one
MixedServers ==
    ("d1" :> Server(<< 1, 5, 6, "firebird" >>, 15)) @@
    ("d2" :> Server(<< 4, 0, 2, "firebird" >>, 40))

InitTables ==
    /\ InitWith(SampleServers, TableProbes, { None })
    /\ server = MixedServers

NextTables ==
    \E d \in Dialects : initialize(d) \/ GetColumns(d) \/ GetColumnsTwice(d)

SpecTables == InitTables /\ [][NextTables]_vars

\* C12: reflecting the columns of a table twice in succession, the catalog
\* unchanged, yields the same sequence of column descriptors both times,
\* also when more than one trigger links the primary-key column to a
\* generator.
C12_ReflectedTwiceAlike ==
    db.kind = "table" /\ last.op = "get_columns_twice" =>
        /\ last.raised = ""
        /\ last.ret[1] = last.ret[2]

\* with the triggers TR_A and TR_B on EMP.ID, the column ID was reflected
\* with one sequence the first time and with another the second time
C12_Witness ==
    /\ db.kind = "table"
    /\ last.op = "get_columns_twice"
    /\ { t.name : t \in db.triggers } = { << "T","R","_","A" >>, << "T","R","_","B" >> }
    /\ last.raised = ""
    /\ last.ret[1][1].sequence # None
    /\ last.ret[2][1].sequence # None
    /\ last.ret[1][1].sequence # last.ret[2][1].sequence

\* the last call reflected the columns of the table EMP
ReflectedTable ==
    /\ db.kind = "table"
    /\ last.op = "get_columns"
    /\ last.args = << EmpName >>

\* the type a column of a field type the map knows is reflected with by
\* dialect d, whatever the other columns are
RecognizedType(d, code) ==
    CASE code = 8  -> TypeOf("INTEGER", << >>)
      [] code = 37 -> TypeOf("VARCHAR", << Some(8) >>)
      [] code = 35 -> TypeOf(IF version_two[d] THEN "TIMESTAMP" ELSE "DATE", << >>)

\* C13: when columns of the table have a type name the active type map does
\* not hold, get_columns does not fail: it returns one descriptor per
\* column, in field-position order; each column of an unknown type carries
\* the null type and every other column the type it has when no unknown
\* column is present.
C13_UnknownTypesReflectedAsNull ==
    ReflectedTable =>
        /\ last.raised = ""
        /\ Len(last.ret) = 1 + Len(db.types)
        /\ last.ret[1].name.text = << "i","d" >>
        /\ last.ret[1].type = RecognizedType(last.d, 8)
        /\ \A i \in 1..Len(db.types) :
              /\ last.ret[i + 1].name.text = lower(ColumnName(i))
              /\ last.ret[i + 1].type =
                    IF db.types[i] = 23 THEN NULLTYPE
                    ELSE RecognizedType(last.d, db.types[i])

\* EMP (ID, C1 BOOLEAN, C2 VARYING) was reflected: C1 with the null type and
\* C2 as VARCHAR(8)
C13_Witness ==
    /\ ReflectedTable
    /\ db.types = << 23, 37 >>
    /\ last.raised = ""
    /\ Len(last.ret) = 3
    /\ last.ret[2].type = NULLTYPE
    /\ last.ret[3].type = TypeOf("VARCHAR", << Some(8) >>)

\* C14: a dialect initialized in the Legacy generation reflects a column of
\* the catalog type TIMESTAMP with the type DATE; a dialect initialized in
\* the Modern generation reflects it with the type TIMESTAMP.
C14_TimestampFollowsGeneration ==
    ReflectedTable /\ last.raised = "" =>
        \A i \in 1..Len(db.types) :
            db.types[i] = 35 =>
                last.ret[i + 1].type =
                    IF version_two[last.d] THEN TypeOf("TIMESTAMP", << >>)
                    ELSE TypeOf("DATE", << >>)

\* the Legacy dialect d1 has reflected the TIMESTAMP column C1 as a DATE
C14_Witness ==
    /\ ReflectedTable
    /\ last.d = "d1"
    /\ initialized["d1"] /\ ~ version_two["d1"]
    /\ db.types = << 35 >>
    /\ last.raised = ""
    /\ last.ret[2].type = TypeOf("DATE", << >>)

\* ---------------------------------------------------------------------------
\* Properties of initialization over several dialects and several calls
\* ---------------------------------------------------------------------------

\* One Legacy and one Modern server, either way round.
LegacyAndModernServers ==
    { sv \in [Dialects -> AllServers] :
        detect_version_two(sv["d1"].server_version_info)
            # detect_version_two(sv["d2"].server_version_info) }

InitInterleaved ==
    /\ InitWith(AllServers, { [kind |-> "sample"] }, { None })
    /\ server \in LegacyAndModernServers

NextInterleaved ==
    \E d \in Dialects :
        \/ initialize_version(d)
        \/ initialize_types(d)
        \/ initialize_returning(d)
        \/ initialize_length(d)

SpecInterleaved == InitInterleaved /\ [][NextInterleaved]_vars

\* C15: capability state is not shared between dialects.  With one Legacy
\* and one Modern dialect and the statements of their initialize calls
\* interleaved in every way, no step modifies the module-level type table or
\* the module-level column specifications, and a step of one dialect leaves
\* the generation flag, the type map and the column specifications the other
\* dialect reads as they were; the type map the Modern dialect reads keeps
\* TIMESTAMP a TIMESTAMP.
C15_InitializeTouchesOneDialect ==
    [][ /\ ischema_names' = static_ischema_names
        /\ colspecs' = static_colspecs
        /\ \A d, e \in Dialects :
              pc'[d] # pc[d] /\ e # d =>
                  /\ version_two'[e] = version_two[e]
                  /\ self_ischema_names(e)' = self_ischema_names(e)
                  /\ self_colspecs(e)' = self_colspecs(e)
                  /\ initialized[e] /\ version_two[e] =>
                        self_ischema_names(e)'[T_TIMESTAMP] = "TIMESTAMP" ]_vars

\* the Legacy dialect d1 has returned from initialize while the Modern
\* dialect d2, initialized before, is inside a second call: d1 reads
\* TIMESTAMP as DATE, d2 and the module-level table as TIMESTAMP
C15_Witness ==
    /\ last = [op |-> "initialize", d |-> "d1"]
    /\ initialized["d1"] /\ ~ version_two["d1"] /\ pc["d1"] = "idle"
    /\ initialized["d2"] /\ version_two["d2"] /\ pc["d2"] = "returning"
    /\ self_ischema_names("d1")[T_TIMESTAMP] = "DATE"
    /\ self_ischema_names("d2")[T_TIMESTAMP] = "TIMESTAMP"
    /\ ischema_names[T_TIMESTAMP] = "TIMESTAMP"

\* C16: once initialize has run on a dialect, its maximum identifier length
\* is 31 when the engine version the driver reports is below 4.0 and 252
\* otherwise, whatever the generation of the dialect.
C16_MaxIdentifierLengthFollowsEngine ==
    \A d \in Dialects :
        initialized[d] =>
            max_identifier_length[d] =
                IF server[d].engine_version_x10 < 40 THEN 31 ELSE 252

\* a Modern dialect with the maximum 31 (Firebird 3.0 server, engine 2.5) and
\* a Legacy dialect with the maximum 252 (Firebird 1.5 server, engine 4.0)
C16_Witness ==
    /\ initialized["d1"] /\ version_two["d1"]
    /\ server["d1"] = Server(<< 3, 0, 4, "firebird" >>, 25)
    /\ max_identifier_length["d1"] = 31
    /\ initialized["d2"] /\ ~ version_two["d2"]
    /\ server["d2"] = Server(<< 1, 5, 6, "firebird" >>, 40)
    /\ max_identifier_length["d2"] = 252

\* A dialect is handed a connection to another server; its next initialize
\* call reads what that connection reports (the connection argument of
\* base.py:542).
Reconnect(d) ==
    /\ \E s \in SampleServers : server' = [server EXCEPT ![d] = s]
    /\ server'[d] # server[d]
    /\ UNCHANGED << capability, statics, db, initialized, server_version_info,
                    pc, last >>

InitReinitialized ==
    InitWith(SampleServers, { [kind |-> "sample"] }, { None, Some(TRUE), Some(FALSE) })

NextReinitialized == \E d \in Dialects : initialize(d) \/ Reconnect(d)

SpecReinitialized == InitReinitialized /\ [][NextReinitialized]_vars

\* C17: after one or more initialize calls on a dialect, against servers
\* whose product and version may differ from call to call, the type map the
\* dialect reads agrees with its current generation flag: TIMESTAMP
\* resolves to DATE if and only if the flag is Legacy, so that a Modern
\* initialization after a Legacy one resolves TIMESTAMP to TIMESTAMP again.
C17_TypeMapAgreesWithGeneration ==
    \A d \in Dialects :
        initialized[d] =>
            (self_ischema_names(d)[T_TIMESTAMP] = "DATE" <=> ~ version_two[d])

\* a dialect initialized against a Legacy server and then against a Modern
\* one: the flag is Modern and TIMESTAMP still resolves to DATE
C17_Witness ==
    /\ last = [op |-> "initialize", d |-> "d1"]
    /\ initialized["d1"] /\ version_two["d1"]
    /\ server_version_info["d1"] = Some(<< 4, 0, 2, "firebird" >>)
    /\ self_ischema_names("d1")[T_TIMESTAMP] = "DATE"
    /\ self_colspecs("d1") = ("DateTime" :> "DATE")

====
